---------------------------- MODULE Spec2Model ----------------------------
(***************************************************************************)
(* A model of the Messenger commerce bot: the in-memory conversation       *)
(* store, the order flow, the order-creation transaction with its row lock *)
(* on the product, the admin order operations and the verification         *)
(* decisions.  The relational store is modelled by its committed tables;   *)
(* a transaction's statements become visible at COMMIT and are discarded   *)
(* by ROLLBACK.  SELECT ... FOR UPDATE and UPDATE on a products row take   *)
(* that row's exclusive lock, held to the end of the transaction.          *)
(***************************************************************************)
EXTENDS Integers, Sequences, FiniteSets, TLC

(***************************************************************************)
(* Bounds of the model and the scenario data.                              *)
(***************************************************************************)
InitStock == 2        \* stock_quantity of the product at start
MaxOrders == 2        \* AUTO_INCREMENT values the orders table may hand out
MaxAdminOps == 2      \* admin API requests in one behaviour
ProductPrice == 2500  \* base_price of the product
EstablishedOrders == 3 \* total_orders of the established buyer at start

(***************************************************************************)
(* Program constants.                                                      *)
(***************************************************************************)
SHIPPING_FEE == 50
COD_VERIFICATION_THRESHOLD == 5000
NEW_USER_ORDERS == 3
LOW_STOCK_THRESHOLD == 5
TTL_MINUTES == 30                \* ttl_minutes of set_conversation_state
UPFRONT_PERCENT == 10            \* UPFRONT_PERCENTAGE = 0.10
MIN_QUANTITY == 1
MAX_QUANTITY == 99
MIN_NAME_LEN == 2
MAX_NAME_LEN == 255
MIN_ADDRESS_LEN == 10
MAX_ADDRESS_LEN == 500

Users == {"u1", "u2"}
ProductIds == {"p1"}
Calls == {"c1", "c2"}
NoCall == "none"
PaymentMethods == {"cod", "gcash", "bank_transfer"}
TrustedBuyers == {"u2"}         \* rows of trusted_buyers

\* OrderState of conversation_service plus the verification steps.
IDLE == "idle"
AWAITING_QUANTITY == "awaiting_quantity"
AWAITING_NAME == "awaiting_name"
AWAITING_PHONE == "awaiting_phone"
AWAITING_ADDRESS == "awaiting_address"
AWAITING_PAYMENT_METHOD == "awaiting_payment_method"
AWAITING_CONFIRMATION == "awaiting_confirmation"
AWAITING_ID_UPLOAD == "AWAITING_ID_UPLOAD"
AWAITING_SELFIE_UPLOAD == "AWAITING_SELFIE_UPLOAD"
AWAITING_PAYMENT_PROOF == "AWAITING_PAYMENT_PROOF"

\* valid_statuses of api_update_status
ValidStatuses ==
    {"pending", "confirmed", "processing", "shipped", "delivered", "cancelled"}

(***************************************************************************)
(* Texts are sequences of one-character strings.                            *)
(***************************************************************************)
Digits == {"0", "1", "2", "3", "4", "5", "6", "7", "8", "9"}

DigitValue(ch) ==
    CASE ch = "0" -> 0 [] ch = "1" -> 1 [] ch = "2" -> 2 [] ch = "3" -> 3
      [] ch = "4" -> 4 [] ch = "5" -> 5 [] ch = "6" -> 6 [] ch = "7" -> 7
      [] ch = "8" -> 8 [] ch = "9" -> 9

AllDigits(s) == \A i \in 1..Len(s) : s[i] \in Digits

\* The value of a digit string.  Python integers do not overflow; the value
\* is only ever compared with 1 and 99, so it is kept exact up to 99 and
\* held at 100 above that.
Saturated(n) == IF n > MAX_QUANTITY THEN MAX_QUANTITY + 1 ELSE n

RECURSIVE DecimalValue(_)
DecimalValue(s) ==
    IF s = <<>> THEN 0
    ELSE Saturated(10 * DecimalValue(SubSeq(s, 1, Len(s) - 1))
                   + DigitValue(s[Len(s)]))

\* str.strip(): leading and trailing blanks removed
RECURSIVE LStrip(_)
LStrip(s) == IF s # <<>> /\ Head(s) = " " THEN LStrip(Tail(s)) ELSE s

RECURSIVE RStrip(_)
RStrip(s) ==
    IF s # <<>> /\ s[Len(s)] = " " THEN RStrip(SubSeq(s, 1, Len(s) - 1)) ELSE s

Strip(s) == LStrip(RStrip(s))

\* ' '.join(s.strip().split()): runs of blanks inside collapse to one blank
\* (computed half by half, so that long texts need little nesting)
RECURSIVE CollapseBlanks(_)
CollapseBlanks(s) ==
    IF Len(s) < 2 THEN s
    ELSE LET mid == Len(s) \div 2
             left == CollapseBlanks(SubSeq(s, 1, mid))
             right == CollapseBlanks(SubSeq(s, mid + 1, Len(s)))
         IN  IF left[Len(left)] = " " /\ right[1] = " "
               THEN left \o Tail(right)
               ELSE left \o right

Clean(s) == CollapseBlanks(Strip(s))

\* re.sub(r'[\s\-\(\)]', '', phone)
RECURSIVE StripSeparators(_)
StripSeparators(s) ==
    IF s = <<>> THEN <<>>
    ELSE IF Head(s) \in {" ", "-", "(", ")"} THEN StripSeparators(Tail(s))
    ELSE <<Head(s)>> \o StripSeparators(Tail(s))

HasPrefix(s, p) == Len(s) >= Len(p) /\ SubSeq(s, 1, Len(p)) = p

\* validate_quantity: [ok, value]; int() of a text that is not a number raises
\* ValueError, which the validator turns into a rejection
validate_quantity(text) ==
    LET s == Strip(text)
        neg == s # <<>> /\ Head(s) = "-"
        body == IF s # <<>> /\ Head(s) \in {"-", "+"} THEN Tail(s) ELSE s
        quantity == IF neg THEN 0 - DecimalValue(body) ELSE DecimalValue(body)
    IN  IF body = <<>> \/ ~AllDigits(body) THEN [ok |-> FALSE, value |-> 0]
        ELSE IF quantity < MIN_QUANTITY THEN [ok |-> FALSE, value |-> 0]
        ELSE IF quantity > MAX_QUANTITY THEN [ok |-> FALSE, value |-> 0]
        ELSE [ok |-> TRUE, value |-> quantity]

\* validate_name: [ok, value]
validate_name(name) ==
    IF name = <<>> \/ Len(Strip(name)) < MIN_NAME_LEN
        THEN [ok |-> FALSE, value |-> <<>>]
    ELSE IF Len(name) > MAX_NAME_LEN THEN [ok |-> FALSE, value |-> <<>>]
    ELSE [ok |-> TRUE, value |-> Clean(name)]

\* validate_address: [ok, value]
validate_address(address) ==
    IF address = <<>> \/ Len(Strip(address)) < MIN_ADDRESS_LEN
        THEN [ok |-> FALSE, value |-> <<>>]
    ELSE IF Len(address) > MAX_ADDRESS_LEN THEN [ok |-> FALSE, value |-> <<>>]
    ELSE [ok |-> TRUE, value |-> Clean(address)]

\* a validator that takes any 11 digits and puts +63 in front of them
validate_phone_any_digits(phone) ==
    LET p == StripSeparators(phone)
    IN  IF Len(p) = 11 /\ AllDigits(p)
            THEN [ok |-> TRUE, value |-> <<"+", "6", "3">> \o Tail(p)]
        ELSE [ok |-> FALSE, value |-> <<>>]

\* validate_phone_number: [ok, value]; the three patterns in the code's order
validate_phone_number(phone) ==
    LET p == StripSeparators(phone)
    IN  IF Len(p) = 13 /\ HasPrefix(p, <<"+", "6", "3", "9">>)
           /\ AllDigits(SubSeq(p, 5, 13))
            THEN [ok |-> TRUE, value |-> p]
        ELSE IF Len(p) = 11 /\ HasPrefix(p, <<"0", "9">>)
           /\ AllDigits(SubSeq(p, 3, 11))
            THEN [ok |-> TRUE, value |-> <<"+", "6", "3">> \o Tail(p)]
        ELSE IF Len(p) = 12 /\ HasPrefix(p, <<"6", "3", "9">>)
           /\ AllDigits(SubSeq(p, 4, 12))
            THEN [ok |-> TRUE, value |-> <<"+">> \o p]
        ELSE [ok |-> FALSE, value |-> <<>>]

\* The texts a buyer types in this model: quantities, a text no step accepts,
\* and one text that is at once a name, a mobile number and an address.
ContactText == <<"0", "9", "1", "7", "1", "2", "3", "4", "5", "6", "7">>
Texts == {<<"0">>, <<"1">>, <<"2">>, <<"3">>, <<"x">>, ContactText}


(***************************************************************************)
(* State.                                                                  *)
(***************************************************************************)
VARIABLES
    conversation_state,   \* the process-wide dict: user -> [state, data,
                          \* expires_at, updated_at]
    products,             \* products table: id -> [stock_quantity, sales_count]
    users,                \* users table: id -> [total_orders, total_spent]
    orders,               \* orders table: order id -> row
    order_items,          \* order_items table: a set of rows
    inventory_logs,       \* inventory_logs table: rows in insertion order
    order_verifications,  \* order_verifications table: order id -> row
    next_order_id,        \* AUTO_INCREMENT counter of orders
    row_lock,             \* products row -> call holding its exclusive lock
    calls,                \* confirm_and_create_order invocations in progress
    admin_ops,            \* admin API requests served so far
    last,                 \* what the last handler answered
    initial_stock,        \* history: each product's stock_quantity at start
    now,                  \* datetime.now(), in minutes
    processed_events      \* the webhook's set of handled event ids

store == <<products, users, orders, order_items, inventory_logs,
           order_verifications, next_order_id, initial_stock>>
vars == <<conversation_state, products, users, orders, order_items,
          inventory_logs, order_verifications, next_order_id, row_lock,
          calls, admin_ops, last, initial_stock, now, processed_events>>

IdleCall ==
    [pc |-> "idle", user |-> "none", data |-> <<>>, stock |-> 0, order_id |-> 0]

\* the answer of a handler: who was addressed, the handler's return value, the
\* message sent to the buyer and the admin notifications fired
Answer(op, arg, ok, msg, notified) ==
    [op |-> op, arg |-> arg, ok |-> ok, msg |-> msg, notified |-> notified]

\* the store and the processes with no order row, the product holding
\* `stock` units, the orders table about to hand out the id `next_id` and
\* the users having placed total_orders[u] orders so far
StoreWithCache(stock, next_id, total_orders, cache) ==
    /\ products = [p \in ProductIds |->
                     [stock_quantity |-> stock, sales_count |-> 0,
                      base_price |-> ProductPrice]]
    /\ initial_stock = [p \in ProductIds |-> stock]
    /\ now = 0
    /\ processed_events = cache
    /\ users = [u \in Users |->
                  [total_orders |-> total_orders[u], total_spent |-> 0]]
    /\ orders = <<>>
    /\ order_items = {}
    /\ inventory_logs = <<>>
    /\ order_verifications = <<>>
    /\ next_order_id = next_id
    /\ row_lock = [p \in ProductIds |-> NoCall]
    /\ calls = [c \in Calls |-> IdleCall]
    /\ admin_ops = 0
    /\ last = Answer("init", "none", TRUE, "none", {})

\* the same with no event handled by the webhook yet
StoreWith(stock, next_id, total_orders) ==
    StoreWithCache(stock, next_id, total_orders, {})

\* u1 is a new customer, u2 an established one
StoreAt(stock, next_id) ==
    StoreWith(stock, next_id,
              [u \in Users |-> IF u = "u1" THEN 0 ELSE EstablishedOrders])

\* the store at start
InitStore(stock) == StoreAt(stock, 1)

Init ==
    /\ conversation_state = <<>>
    /\ InitStore(InitStock)

(***************************************************************************)
(* Conversation State Store (conversation_service).  Only SpecStore         *)
(* advances the clock; in the other specifications no session expires.      *)
(***************************************************************************)
\* set_conversation_state: the session is replaced
SetState(cs, user_id, state, data) ==
    [u \in DOMAIN cs \cup {user_id} |->
        IF u = user_id
            THEN [state |-> state, data |-> data,
                  expires_at |-> now + TTL_MINUTES, updated_at |-> now]
        ELSE cs[u]]

\* a variant that also renews the session's deadline
UpdateDataRenewing(cs, user_id, key, value) ==
    IF user_id \in DOMAIN cs
        THEN [cs EXCEPT ![user_id].data =
                 [k \in DOMAIN @ \cup {key} |-> IF k = key THEN value ELSE @[k]],
                        ![user_id].updated_at = now,
                        ![user_id].expires_at = now + TTL_MINUTES]
        ELSE cs

\* update_conversation_data: one key of an existing session's data
UpdateData(cs, user_id, key, value) ==
    IF user_id \in DOMAIN cs
        THEN [cs EXCEPT ![user_id].data =
                 [k \in DOMAIN @ \cup {key} |-> IF k = key THEN value ELSE @[k]],
                        ![user_id].updated_at = now]
        ELSE cs

\* clear_conversation_state
ClearState(cs, user_id) == [u \in DOMAIN cs \ {user_id} |-> cs[u]]

\* a variant in which the step assignment renews the session's deadline
AdvanceRenewing(cs, user_id, state) ==
    [cs EXCEPT ![user_id].state = state,
               ![user_id].expires_at = now + TTL_MINUTES]

\* state['state'] = ... on the dict get_conversation_state returned
Advance(cs, user_id, state) == [cs EXCEPT ![user_id].state = state]

HasSession(user_id) == user_id \in DOMAIN conversation_state

\* is_in_conversation
is_in_conversation(user_id) ==
    HasSession(user_id) /\ conversation_state[user_id].state # IDLE

StateOf(user_id) ==
    IF HasSession(user_id) THEN conversation_state[user_id].state ELSE IDLE

(***************************************************************************)
(* Order Flow Controller (order_service, handlers_service).                 *)
(***************************************************************************)
\* handle_order_request: the session it sets from the product row it read
RequestStep(cs, sender_id, product_id, product) ==
    IF product.stock_quantity <= 0 THEN cs
    ELSE SetState(cs, sender_id, AWAITING_QUANTITY,
                  [product_id |-> product_id,
                   product_price |-> product.base_price,
                   max_stock |-> product.stock_quantity])

\* ORDER_<product_id> postback
handle_order_request(sender_id, product_id) ==
    LET product == products[product_id]
    IN  /\ conversation_state' =
              RequestStep(conversation_state, sender_id, product_id, product)
        /\ last' = Answer("handle_order_request", sender_id, TRUE,
                          IF product.stock_quantity <= 0
                            THEN "out_of_stock" ELSE "ask_quantity", {})
        /\ UNCHANGED <<store, row_lock, calls, admin_ops, now, processed_events>>

\* a quantity step that does not look at the snapshotted stock
QuantityStepAnyStock(cs, sender_id, text) ==
    LET v == validate_quantity(text)
        data == cs[sender_id].data
    IN  IF ~v.ok THEN cs
        ELSE Advance(
                UpdateData(UpdateData(cs, sender_id, "quantity", v.value),
                           sender_id, "subtotal", data.product_price * v.value),
                sender_id, AWAITING_NAME)

\* process_quantity_input: the session after the text
QuantityStep(cs, sender_id, text) ==
    LET v == validate_quantity(text)
        data == cs[sender_id].data
    IN  IF ~v.ok \/ v.value > data.max_stock THEN cs
        ELSE Advance(
                UpdateData(UpdateData(cs, sender_id, "quantity", v.value),
                           sender_id, "subtotal", data.product_price * v.value),
                sender_id, AWAITING_NAME)

\* process_name_input
NameStep(cs, sender_id, text) ==
    LET v == validate_name(text)
    IN  IF ~v.ok THEN cs
        ELSE Advance(UpdateData(cs, sender_id, "recipient_name", v.value),
                     sender_id, AWAITING_PHONE)

\* a phone step that takes whatever was typed
PhoneStepUnchecked(cs, sender_id, text) ==
    Advance(UpdateData(cs, sender_id, "phone", text), sender_id, AWAITING_ADDRESS)

\* process_phone_input
PhoneStep(cs, sender_id, text) ==
    LET v == validate_phone_number(text)
    IN  IF ~v.ok THEN cs
        ELSE Advance(UpdateData(cs, sender_id, "phone", v.value),
                     sender_id, AWAITING_ADDRESS)

\* process_address_input
AddressStep(cs, sender_id, text) ==
    LET v == validate_address(text)
    IN  IF ~v.ok THEN cs
        ELSE Advance(UpdateData(cs, sender_id, "address", v.value),
                     sender_id, AWAITING_PAYMENT_METHOD)

\* a text message: routed by the session's step; a text in any other step
\* falls through to the keyword replies and changes nothing
handle_user_message(sender_id, text) ==
    LET st == StateOf(sender_id)
        cs == conversation_state
        next == CASE st = AWAITING_QUANTITY -> QuantityStep(cs, sender_id, text)
                  [] st = AWAITING_NAME -> NameStep(cs, sender_id, text)
                  [] st = AWAITING_PHONE -> PhoneStep(cs, sender_id, text)
                  [] st = AWAITING_ADDRESS -> AddressStep(cs, sender_id, text)
                  [] OTHER -> cs
        flow == st \in {AWAITING_QUANTITY, AWAITING_NAME, AWAITING_PHONE,
                        AWAITING_ADDRESS}
        upload == st \in {AWAITING_ID_UPLOAD, AWAITING_SELFIE_UPLOAD,
                          AWAITING_PAYMENT_PROOF}
    IN  /\ conversation_state' = next
        /\ last' = Answer("handle_user_message", sender_id, TRUE,
                          IF flow THEN (IF next = cs THEN "rejected" ELSE "accepted")
                          ELSE IF upload THEN "upload_an_image"
                          ELSE "reply", {})
        /\ UNCHANGED <<store, row_lock, calls, admin_ops, now, processed_events>>

\* process_payment_method: the session after the choice, in a session that
\* is at AWAITING_PAYMENT_METHOD
PaymentStep(cs, sender_id, payment_method) ==
    LET cs1 == UpdateData(cs, sender_id, "payment_method", payment_method)
        subtotal == cs1[sender_id].data.subtotal
        cs2 == UpdateData(cs1, sender_id, "shipping_fee", SHIPPING_FEE)
        cs3 == UpdateData(cs2, sender_id, "total_amount", subtotal + SHIPPING_FEE)
    IN  Advance(cs3, sender_id, AWAITING_CONFIRMATION)

\* a variant that also takes the choice at the confirmation step
PaymentOrConfirmationStep(sender_id) ==
    StateOf(sender_id) \in {AWAITING_PAYMENT_METHOD, AWAITING_CONFIRMATION}

\* state and state['state'] == OrderState.AWAITING_PAYMENT_METHOD
AtPaymentStep(sender_id) == StateOf(sender_id) = AWAITING_PAYMENT_METHOD

\* PAY_COD, PAY_GCASH, PAY_BANK postbacks
process_payment_method(sender_id, payment_method) ==
    /\ IF ~AtPaymentStep(sender_id)
         THEN /\ UNCHANGED conversation_state
              /\ last' = Answer("process_payment_method", sender_id, FALSE,
                                "none", {})
         ELSE /\ conversation_state' =
                    PaymentStep(conversation_state, sender_id, payment_method)
              /\ last' = Answer("process_payment_method", sender_id, TRUE,
                                "order_summary", {})
    /\ UNCHANGED <<store, row_lock, calls, admin_ops, now, processed_events>>

\* CANCEL_ORDER postback (order_service.cancel_order)
cancel_order(sender_id) ==
    /\ IF HasSession(sender_id)
         THEN /\ conversation_state' = ClearState(conversation_state, sender_id)
              /\ last' = Answer("cancel_order", sender_id, TRUE,
                                "order_cancelled", {})
         ELSE /\ UNCHANGED conversation_state
              /\ last' = Answer("cancel_order", sender_id, TRUE,
                                "no_active_order", {})
    /\ UNCHANGED <<store, row_lock, calls, admin_ops, now, processed_events>>

(***************************************************************************)
(* Verification requirement decision (verification_service).                *)
(***************************************************************************)
is_trusted_buyer(user_id) == user_id \in TrustedBuyers

\* the rule as it would read the counter before the order was counted
is_new_user_before_commit(user_id) ==
    users[user_id].total_orders - 1 < NEW_USER_ORDERS

is_new_user(user_id) == users[user_id].total_orders < NEW_USER_ORDERS

check_verification_required(order_total, payment_method, user_id) ==
    IF is_trusted_buyer(user_id)
        THEN [required |-> FALSE, reason |-> "trusted_buyer"]
    ELSE IF payment_method = "cod" /\ order_total >= COD_VERIFICATION_THRESHOLD
        THEN [required |-> TRUE, reason |-> "cod_high_value"]
    ELSE IF payment_method = "cod" /\ is_new_user(user_id)
        THEN [required |-> TRUE, reason |-> "new_user_cod"]
    ELSE [required |-> FALSE, reason |-> "not_required"]

\* create_verification_record: UPDATE orders ... WHERE id = order_id
create_verification_record(tbl, order_id, order_total) ==
    IF order_id \in DOMAIN tbl
        THEN [tbl EXCEPT ![order_id].verification_required = TRUE,
                         ![order_id].verification_status = "pending",
                         ![order_id].upfront_paid = 0,
                         ![order_id].remaining_balance = order_total]
        ELSE tbl

(***************************************************************************)
(* Order Materialization (order_service.confirm_and_create_order).  One     *)
(* invocation is a call c: "idle" -> "txn" (session read, transaction       *)
(* begun) -> "locked" (product row read FOR UPDATE, stock sufficient) ->    *)
(* "committed" -> "idle", or "txn" -> "rolled_back" -> "idle" when the      *)
(* stock is short, or back to "idle" from "txn"/"locked" on an exception.   *)
(***************************************************************************)
InTransaction(c) == calls[c].pc \in {"txn", "locked"}

\* the statements of the transaction, in the order the code executes them
Statements ==
    <<"order_insert", "item_insert", "stock_update", "log_insert", "user_update">>
COMMIT_POINT == Len(Statements) + 1

NewOrderRow(c) ==
    LET data == calls[c].data
    IN  [user_id |-> calls[c].user,
         subtotal |-> data.subtotal,
         shipping_fee |-> data.shipping_fee,
         total_amount |-> data.total_amount,
         payment_method |-> data.payment_method,
         payment_status |-> "pending",
         order_status |-> "pending",
         notes |-> << <<"Recipient", data.recipient_name, data.phone,
                        data.address>> >>,
         verification_required |-> FALSE,
         verification_status |-> "not_required",
         upfront_paid |-> 0,
         remaining_balance |-> 0,
         confirmed_at |-> 0, shipped_at |-> 0, delivered_at |-> 0,
         cancelled_at |-> 0]

\* an item row priced from the products row as it is at the commit
ItemRowAtCurrentPrice(c) ==
    LET data == calls[c].data
        price == products[data.product_id].base_price
    IN  [order_id |-> next_order_id,
         product_id |-> data.product_id,
         quantity |-> data.quantity,
         unit_price |-> price,
         total_price |-> price * data.quantity]

NewItemRow(c) ==
    LET data == calls[c].data
    IN  [order_id |-> next_order_id,
         product_id |-> data.product_id,
         quantity |-> data.quantity,
         unit_price |-> data.product_price,
         total_price |-> data.subtotal]

\* a checkout that writes back the stock it read
StockAsRead(c) == calls[c].stock

\* new_stock = product['stock_quantity'] - data['quantity'], from the locked read
NewStock(c) == calls[c].stock - calls[c].data.quantity

NewLogRow(c) ==
    [product_id |-> calls[c].data.product_id,
     transaction_type |-> "stock_out",
     quantity_change |-> 0 - calls[c].data.quantity,
     previous_stock |-> calls[c].stock,
     new_stock |-> NewStock(c),
     reference_type |-> "order",
     reference_id |-> next_order_id]

\* The tables as call c's transaction sees them after its first n statements.
OrdersAfter(c, n) ==
    IF n >= 1 THEN [o \in DOMAIN orders \cup {next_order_id} |->
                       IF o = next_order_id THEN NewOrderRow(c) ELSE orders[o]]
    ELSE orders

ItemsAfter(c, n) ==
    IF n >= 2 THEN order_items \cup {NewItemRow(c)} ELSE order_items

ProductsAfter(c, n) ==
    IF n >= 3
        THEN [products EXCEPT
                 ![calls[c].data.product_id].stock_quantity = NewStock(c),
                 ![calls[c].data.product_id].sales_count =
                     @ + calls[c].data.quantity]
    ELSE products

LogsAfter(c, n) ==
    IF n >= 4 THEN Append(inventory_logs, NewLogRow(c)) ELSE inventory_logs

UsersAfter(c, n) ==
    IF n >= 5
        THEN [users EXCEPT
                 ![calls[c].user].total_orders = @ + 1,
                 ![calls[c].user].total_spent = @ + calls[c].data.total_amount]
    ELSE users

\* a rollback that leaves the executed statements in place (autocommit)
KeptWrites(committed, workspace) == workspace

\* conn.rollback(): the committed table stays, the transaction's view is dropped
RolledBack(committed, workspace) == committed

\* AUTO_INCREMENT is not given back by a rollback
NextIdAfter(n) == IF n >= 1 THEN next_order_id + 1 ELSE next_order_id

\* order ids that calls not yet past their INSERT may still take
IdsInFlight == Cardinality({c \in Calls : InTransaction(c)})

\* CONFIRM_ORDER postback, lines 333-355: the session is read, the transaction
\* begun
ConfirmStart(c, sender_id) ==
    /\ calls[c].pc = "idle"
    /\ IF StateOf(sender_id) # AWAITING_CONFIRMATION
         THEN /\ last' = Answer("confirm_and_create_order", sender_id, FALSE,
                                "no_active_order", {})
              /\ UNCHANGED calls
         ELSE /\ next_order_id + IdsInFlight <= MaxOrders
              /\ calls' = [calls EXCEPT ![c] =
                             [pc |-> "txn", user |-> sender_id,
                              data |-> conversation_state[sender_id].data,
                              stock |-> 0, order_id |-> 0]]
              /\ last' = Answer("confirm.begin", sender_id, TRUE, "none", {})
    /\ UNCHANGED <<conversation_state, store, row_lock, admin_ops, now, processed_events>>

\* a plain SELECT, which does not wait for the row lock
RowLockIgnored(p) == TRUE

\* SELECT ... FOR UPDATE returns once no other transaction holds the row
RowLockFree(p) == row_lock[p] = NoCall

\* a checkout that skips the stock re-check
StockNeverShort(p, quantity) == FALSE

\* a re-check that only refuses a product that is sold out
StockShortWhenEmpty(p, quantity) ==
    p \notin DOMAIN products \/ products[p].stock_quantity <= 0

\* line 365: not product or product['stock_quantity'] < data['quantity']
InsufficientStock(p, quantity) ==
    p \notin DOMAIN products \/ products[p].stock_quantity < quantity

\* lines 357-369: SELECT ... FOR UPDATE waits for the row lock, then reads the
\* committed row; short stock rolls the transaction back at once
LockProduct(c) ==
    LET p == calls[c].data.product_id
        product == products[p]
    IN  /\ calls[c].pc = "txn"
        /\ RowLockFree(p)
        /\ IF InsufficientStock(p, calls[c].data.quantity)
             THEN /\ calls' = [calls EXCEPT ![c].pc = "rolled_back"]
                  /\ UNCHANGED row_lock
                  /\ last' = Answer("confirm.rollback", calls[c].user, TRUE,
                                    "none", {})
             ELSE /\ calls' = [calls EXCEPT ![c].pc = "locked",
                                            ![c].stock = product.stock_quantity]
                  /\ row_lock' = [row_lock EXCEPT ![p] = c]
                  /\ last' = Answer("confirm.lock", calls[c].user, TRUE,
                                    "none", {})
        /\ UNCHANGED <<conversation_state, store, admin_ops, now, processed_events>>

\* lines 367-369: after the rollback, the message and the session clear
InsufficientReply(c) ==
    /\ calls[c].pc = "rolled_back"
    /\ conversation_state' = ClearState(conversation_state, calls[c].user)
    /\ calls' = [calls EXCEPT ![c] = IdleCall]
    /\ last' = Answer("confirm_and_create_order", calls[c].user, FALSE,
                      "insufficient_stock", {})
    /\ UNCHANGED <<store, row_lock, admin_ops, now, processed_events>>

\* lines 371-442: the five statements and conn.commit()
Commit(c) ==
    LET n == Len(Statements)
    IN  /\ calls[c].pc = "locked"
        /\ orders' = OrdersAfter(c, n)
        /\ order_items' = ItemsAfter(c, n)
        /\ products' = ProductsAfter(c, n)
        /\ inventory_logs' = LogsAfter(c, n)
        /\ users' = UsersAfter(c, n)
        /\ next_order_id' = NextIdAfter(n)
        /\ row_lock' = [row_lock EXCEPT ![calls[c].data.product_id] = NoCall]
        /\ calls' = [calls EXCEPT ![c].pc = "committed",
                                  ![c].order_id = next_order_id]
        /\ last' = Answer("confirm.commit", calls[c].user, TRUE, "none", {})
        /\ UNCHANGED <<conversation_state, order_verifications, admin_ops,
                       initial_stock, now, processed_events>>

\* lines 512-522: statement number `at` of the transaction raises (0: before
\* the product row is locked; COMMIT_POINT: the commit itself); the except
\* branch rolls back, tells the buyer and returns False
Fail(c, at) ==
    LET n == IF at = 0 THEN 0 ELSE at - 1
    IN  /\ \/ calls[c].pc = "txn" /\ at = 0
           \/ calls[c].pc = "locked" /\ at \in 1..COMMIT_POINT
        /\ orders' = RolledBack(orders, OrdersAfter(c, n))
        /\ order_items' = RolledBack(order_items, ItemsAfter(c, n))
        /\ products' = RolledBack(products, ProductsAfter(c, n))
        /\ inventory_logs' = RolledBack(inventory_logs, LogsAfter(c, n))
        /\ users' = RolledBack(users, UsersAfter(c, n))
        /\ next_order_id' = NextIdAfter(n)
        /\ row_lock' = [p \in ProductIds |->
                          IF row_lock[p] = c THEN NoCall ELSE row_lock[p]]
        /\ calls' = [calls EXCEPT ![c] = IdleCall]
        /\ last' = Answer("confirm_and_create_order", calls[c].user, FALSE,
                          "order_failed", {})
        /\ UNCHANGED <<conversation_state, order_verifications, admin_ops,
                       initial_stock, now, processed_events>>

\* lines 444-510: after the commit, the verification decision, then either
\* the hand-off to verification or the confirmation, notifications and clear
PostCommit(c) ==
    LET data == calls[c].data
        sender_id == calls[c].user
        check == check_verification_required(data.total_amount,
                                             data.payment_method, sender_id)
    IN  /\ calls[c].pc = "committed"
        /\ IF check.required
             THEN /\ orders' = create_verification_record(
                                   orders, calls[c].order_id, data.total_amount)
                  /\ UNCHANGED conversation_state
                  /\ last' = Answer("confirm_and_create_order", sender_id, TRUE,
                                    "verification_options", {})
             ELSE /\ UNCHANGED orders
                  /\ conversation_state' =
                        ClearState(conversation_state, sender_id)
                  /\ last' = Answer("confirm_and_create_order", sender_id, TRUE,
                                    "order_confirmed",
                                    {"new_order"} \cup
                                    IF NewStock(c) <= LOW_STOCK_THRESHOLD
                                        THEN {"low_stock"} ELSE {})
        /\ calls' = [calls EXCEPT ![c] = IdleCall]
        /\ UNCHANGED <<products, users, order_items, inventory_logs,
                       order_verifications, next_order_id, row_lock, admin_ops,
                       initial_stock, now, processed_events>>

\* the steps after the commit that can fail when no verification is needed:
\* the three sends catch their own exceptions (messenger_service,
\* notification_service); log_chat does not
PostCommitFaults == {"confirmation", "new_order", "low_stock", "log_chat"}
Swallowed(fault) == fault # "log_chat"

\* a table in which the order of call c was never committed
OrdersWithoutCommitted(c) ==
    [o \in DOMAIN orders \ {calls[c].order_id} |-> orders[o]]

\* lines 512-514: conn.rollback() after conn.commit() has nothing to undo
OrdersAfterLateRollback(c) == orders

\* lines 461-510 with one step failing: a send that fails is dropped and the
\* handler goes on; an exception of log_chat reaches the except branch, which
\* rolls back, tells the buyer that the order failed and returns False
PostCommitFault(c, fault) ==
    LET data == calls[c].data
        sender_id == calls[c].user
        check == check_verification_required(data.total_amount,
                                             data.payment_method, sender_id)
        notified == {"new_order"} \cup
                    IF NewStock(c) <= LOW_STOCK_THRESHOLD
                        THEN {"low_stock"} ELSE {}
    IN  /\ calls[c].pc = "committed"
        /\ ~check.required
        /\ fault = "low_stock" => NewStock(c) <= LOW_STOCK_THRESHOLD
        /\ IF Swallowed(fault)
             THEN /\ UNCHANGED orders
                  /\ conversation_state' =
                        ClearState(conversation_state, sender_id)
                  /\ last' = Answer("confirm_and_create_order", sender_id, TRUE,
                                    IF fault = "confirmation"
                                        THEN "none" ELSE "order_confirmed",
                                    notified \ {fault})
             ELSE /\ orders' = OrdersAfterLateRollback(c)
                  /\ UNCHANGED conversation_state
                  /\ last' = Answer("confirm_and_create_order", sender_id, FALSE,
                                    "order_failed", notified)
        /\ calls' = [calls EXCEPT ![c] = IdleCall]
        /\ UNCHANGED <<products, users, order_items, inventory_logs,
                       order_verifications, next_order_id, row_lock, admin_ops,
                       initial_stock, now, processed_events>>

(***************************************************************************)
(* Admin Order Management (admin_service, admin_routes) and the admin       *)
(* decisions on verifications (verification_service).  A timestamp column   *)
(* holds the number of times CURRENT_TIMESTAMP was written to it (0: NULL). *)
(***************************************************************************)
OrderIds == 1..MaxOrders
AdminNotes == {<<>>, <<"n">>}      \* no notes, or some notes
CancelReason == <<"r">>
RejectReason == <<"j">>

\* get_order_by_id: the order's items
ItemsOf(order_id) == {i \in order_items : i.order_id = order_id}

StampedFor(row, new_status) ==
    CASE new_status = "confirmed" -> [row EXCEPT !.confirmed_at = @ + 1]
      [] new_status = "shipped" -> [row EXCEPT !.shipped_at = @ + 1]
      [] new_status = "delivered" -> [row EXCEPT !.delivered_at = @ + 1]
      [] new_status = "cancelled" -> [row EXCEPT !.cancelled_at = @ + 1]
      [] OTHER -> row

\* PUT /api/orders/<id>/status
update_order_status(order_id, new_status) ==
    /\ admin_ops < MaxAdminOps
    /\ admin_ops' = admin_ops + 1
    /\ IF order_id \notin DOMAIN orders
         THEN /\ UNCHANGED orders
              /\ last' = Answer("update_order_status", order_id, FALSE, "none", {})
         ELSE /\ orders' = [orders EXCEPT ![order_id] =
                    StampedFor([@ EXCEPT !.order_status = new_status], new_status)]
              /\ last' = Answer("update_order_status", order_id, TRUE,
                                "order_update", {})
    /\ UNCHANGED <<conversation_state, products, users, order_items,
                   inventory_logs, order_verifications, next_order_id, row_lock,
                   calls, initial_stock, now, processed_events>>

\* the row confirm_order_by_admin writes
ConfirmedRow(row, admin_notes) ==
    [row EXCEPT !.order_status = "confirmed",
                !.confirmed_at = @ + 1,
                !.notes = IF admin_notes # <<>>
                            THEN Append(@, <<"Admin Notes", admin_notes>>)
                            ELSE @]

\* POST /api/orders/<id>/confirm
confirm_order_by_admin(order_id, admin_notes) ==
    /\ admin_ops < MaxAdminOps
    /\ admin_ops' = admin_ops + 1
    /\ IF order_id \notin DOMAIN orders
         THEN /\ UNCHANGED orders
              /\ last' = Answer("confirm_order_by_admin", order_id, FALSE,
                                "none", {})
         ELSE /\ orders' = [orders EXCEPT ![order_id] =
                               ConfirmedRow(@, admin_notes)]
              /\ last' = Answer("confirm_order_by_admin", order_id, TRUE,
                                "order_confirmed_by_admin", {})
    /\ UNCHANGED <<conversation_state, products, users, order_items,
                   inventory_logs, order_verifications, next_order_id, row_lock,
                   calls, initial_stock, now, processed_events>>

\* a restoration of one unit per item, whatever its quantity
RestoredOneUnit(stock_quantity, quantity) == stock_quantity + 1

\* the stock an item gives back: stock_quantity + quantity
RestoredStock(stock_quantity, quantity) == stock_quantity + quantity

\* the inventory log row of a restoration, read from the updated product row
ReturnLogRow(item, order_id, stock_quantity) ==
    [product_id |-> item.product_id,
     transaction_type |-> "return",
     quantity_change |-> item.quantity,
     previous_stock |-> stock_quantity - item.quantity,
     new_stock |-> stock_quantity,
     reference_type |-> "order_cancellation",
     reference_id |-> order_id]

\* for item in order['items']: UPDATE products ...; INSERT INTO inventory_logs
RECURSIVE RestoreItems(_, _, _, _)
RestoreItems(items, order_id, prods, logs) ==
    IF items = {} THEN [products |-> prods, logs |-> logs]
    ELSE LET item == CHOOSE i \in items : TRUE
             p == item.product_id
             prods1 == [prods EXCEPT
                          ![p].stock_quantity = RestoredStock(@, item.quantity),
                          ![p].sales_count = @ - item.quantity]
             logs1 == Append(logs,
                             ReturnLogRow(item, order_id, prods1[p].stock_quantity))
         IN  RestoreItems(items \ {item}, order_id, prods1, logs1)

\* whether cancel_order_by_admin goes on to write for this order
CancelProceeds(order_id) == order_id \in DOMAIN orders

\* POST /api/orders/<id>/cancel; its UPDATE products waits for the row locks
cancel_order_by_admin(order_id, reason) ==
    /\ admin_ops < MaxAdminOps
    /\ admin_ops' = admin_ops + 1
    /\ IF ~CancelProceeds(order_id)
         THEN /\ UNCHANGED <<orders, products, inventory_logs>>
              /\ last' = Answer("cancel_order_by_admin", order_id, FALSE,
                                "none", {})
         ELSE LET restored == RestoreItems(ItemsOf(order_id), order_id,
                                           products, inventory_logs)
              IN  /\ \A i \in ItemsOf(order_id) : row_lock[i.product_id] = NoCall
                  /\ orders' = [orders EXCEPT
                        ![order_id].order_status = "cancelled",
                        ![order_id].cancelled_at = @ + 1,
                        ![order_id].notes =
                            Append(@, <<"Cancelled by Admin", reason>>)]
                  /\ products' = restored.products
                  /\ inventory_logs' = restored.logs
                  /\ last' = Answer("cancel_order_by_admin", order_id, TRUE,
                                    "order_cancelled_by_admin", {})
    /\ UNCHANGED <<conversation_state, users, order_items, order_verifications,
                   next_order_id, row_lock, calls, initial_stock, now, processed_events>>

\* POST /api/verifications/<order_id>/approve
approve_verification(order_id) ==
    /\ admin_ops < MaxAdminOps
    /\ admin_ops' = admin_ops + 1
    /\ order_verifications' =
          IF order_id \in DOMAIN order_verifications
            THEN [order_verifications EXCEPT
                    ![order_id].verification_status = "approved",
                    ![order_id].reviewed = TRUE]
            ELSE order_verifications
    /\ orders' =
          IF order_id \in DOMAIN orders
            THEN [orders EXCEPT ![order_id].verification_status = "verified",
                                ![order_id].order_status = "confirmed"]
            ELSE orders
    /\ last' = Answer("approve_verification", order_id, TRUE,
                      IF order_id \in DOMAIN orders
                        THEN "verification_approved" ELSE "none", {})
    /\ UNCHANGED <<conversation_state, products, users, order_items,
                   inventory_logs, next_order_id, row_lock, calls, initial_stock, now, processed_events>>

\* a rejection that also cancels the order
RejectedAndCancelled(row) ==
    [row EXCEPT !.verification_status = "rejected", !.order_status = "cancelled"]

\* UPDATE orders SET verification_status = 'rejected' WHERE id = order_id
RejectedOrderRow(row) == [row EXCEPT !.verification_status = "rejected"]

\* POST /api/verifications/<order_id>/reject
reject_verification(order_id, reason) ==
    /\ admin_ops < MaxAdminOps
    /\ admin_ops' = admin_ops + 1
    /\ order_verifications' =
          IF order_id \in DOMAIN order_verifications
            THEN [order_verifications EXCEPT
                    ![order_id].verification_status = "rejected",
                    ![order_id].reviewed = TRUE,
                    ![order_id].rejection_reason = reason]
            ELSE order_verifications
    /\ orders' =
          IF order_id \in DOMAIN orders
            THEN [orders EXCEPT ![order_id] = RejectedOrderRow(@)]
            ELSE orders
    /\ last' = Answer("reject_verification", order_id, TRUE,
                      IF order_id \in DOMAIN orders
                        THEN "verification_rejected" ELSE "none", {})
    /\ UNCHANGED <<conversation_state, products, users, order_items,
                   inventory_logs, next_order_id, row_lock, calls, initial_stock, now, processed_events>>

(***************************************************************************)
(* Verification Sub-flow (verification_service, handlers_service).  A row   *)
(* of order_verifications holds which images it has; rejection_reason <<>>  *)
(* and reviewed FALSE stand for NULL reviewer columns.                      *)
(***************************************************************************)
UpfrontMethods == {"gcash", "maya", "bank"}

\* order_total * UPFRONT_PERCENTAGE
UpfrontAmount(total_amount) == (total_amount * UPFRONT_PERCENT) \div 100

\* the buttons a message carries
ButtonsOf(msg, order_id) ==
    IF msg \in {"verification_options", "verification_rejected"}
        THEN {<<"VERIFY_ID", order_id>>, <<"VERIFY_UPFRONT", order_id>>}
    ELSE IF msg = "upfront_payment"
        THEN {<<"PAY_UPFRONT", m, order_id>> : m \in UpfrontMethods}
    ELSE {}

\* VERIFY_ID_<order_id> postback
start_id_verification(messenger_id, order_id) ==
    /\ conversation_state' =
          SetState(conversation_state, messenger_id, AWAITING_ID_UPLOAD,
                   [order_id |-> order_id])
    /\ last' = Answer("start_id_verification", messenger_id, TRUE,
                      "upload_id", {})
    /\ UNCHANGED <<store, row_lock, calls, admin_ops, now, processed_events>>

\* VERIFY_UPFRONT_<order_id> postback
start_upfront_payment(messenger_id, order_id) ==
    /\ last' = IF order_id \in DOMAIN orders
                 THEN Answer("start_upfront_payment", messenger_id, TRUE,
                             "upfront_payment", {})
                 ELSE Answer("start_upfront_payment", messenger_id, FALSE,
                             "order_not_found", {})
    /\ UNCHANGED <<conversation_state, store, row_lock, calls, admin_ops, now, processed_events>>

\* PAY_UPFRONT_<METHOD>_<order_id> postback
send_payment_instructions(messenger_id, order_id, payment_method) ==
    /\ IF order_id \notin DOMAIN orders
         THEN /\ UNCHANGED conversation_state
              /\ last' = Answer("send_payment_instructions", messenger_id,
                                FALSE, "none", {})
         ELSE /\ conversation_state' =
                    SetState(conversation_state, messenger_id,
                             AWAITING_PAYMENT_PROOF,
                             [order_id |-> order_id,
                              payment_method |-> payment_method,
                              amount |->
                                  UpfrontAmount(orders[order_id].total_amount)])
              /\ last' = Answer("send_payment_instructions", messenger_id,
                                TRUE, "payment_instructions", {})
    /\ UNCHANGED <<store, row_lock, calls, admin_ops, now, processed_events>>

\* INSERT INTO order_verifications ... 'id_verification', 'pending' ...
\* ON DUPLICATE KEY UPDATE ... of handle_id_upload
IdUpsert(tbl, order_id) ==
    IF order_id \in DOMAIN tbl
        THEN [tbl EXCEPT ![order_id].id_image = TRUE,
                         ![order_id].verification_status = "pending",
                         ![order_id].selfie_image = FALSE,
                         ![order_id].rejection_reason = <<>>]
    ELSE [o \in DOMAIN tbl \cup {order_id} |->
            IF o = order_id
                THEN [verification_type |-> "id_verification",
                      verification_status |-> "pending",
                      id_image |-> TRUE, selfie_image |-> FALSE,
                      payment_proof |-> FALSE, upfront_amount |-> 0,
                      payment_method |-> "none",
                      rejection_reason |-> <<>>, reviewed |-> FALSE]
            ELSE tbl[o]]

\* a selfie that is not written to the record
SelfieDropped(tbl, order_id) == tbl

\* UPDATE order_verifications SET selfie_image_url ... of handle_selfie_upload
SelfieUpdate(tbl, order_id) ==
    IF order_id \in DOMAIN tbl
        THEN [tbl EXCEPT ![order_id].selfie_image = TRUE,
                         ![order_id].verification_status = "under_review",
                         ![order_id].rejection_reason = <<>>,
                         ![order_id].reviewed = FALSE]
    ELSE tbl

\* INSERT INTO order_verifications ... 'upfront_payment', 'under_review' ...
\* ON DUPLICATE KEY UPDATE ... of handle_payment_proof
ProofUpsert(tbl, order_id, payment_method, amount) ==
    IF order_id \in DOMAIN tbl
        THEN [tbl EXCEPT ![order_id].upfront_amount = amount,
                         ![order_id].payment_proof = TRUE,
                         ![order_id].payment_method = payment_method,
                         ![order_id].verification_status = "under_review",
                         ![order_id].rejection_reason = <<>>,
                         ![order_id].reviewed = FALSE]
    ELSE [o \in DOMAIN tbl \cup {order_id} |->
            IF o = order_id
                THEN [verification_type |-> "upfront_payment",
                      verification_status |-> "under_review",
                      id_image |-> FALSE, selfie_image |-> FALSE,
                      payment_proof |-> TRUE, upfront_amount |-> amount,
                      payment_method |-> payment_method,
                      rejection_reason |-> <<>>, reviewed |-> FALSE]
            ELSE tbl[o]]

\* UPDATE orders SET verification_status = 'under_review' WHERE id = order_id
UnderReview(tbl, order_id) ==
    IF order_id \in DOMAIN tbl
        THEN [tbl EXCEPT ![order_id].verification_status = "under_review"]
    ELSE tbl

\* handle_id_upload: the row is upserted, the selfie asked for
handle_id_upload(messenger_id, order_id) ==
    /\ order_verifications' = IdUpsert(order_verifications, order_id)
    /\ conversation_state' =
          SetState(conversation_state, messenger_id, AWAITING_SELFIE_UPLOAD,
                   [order_id |-> order_id])
    /\ last' = Answer("handle_id_upload", messenger_id, TRUE, "upload_selfie", {})
    /\ UNCHANGED orders

\* handle_selfie_upload: both tables updated, the session cleared, the admin
\* notified
handle_selfie_upload(messenger_id, order_id) ==
    /\ order_verifications' = SelfieUpdate(order_verifications, order_id)
    /\ orders' = UnderReview(orders, order_id)
    /\ conversation_state' = ClearState(conversation_state, messenger_id)
    /\ last' = Answer("handle_selfie_upload", messenger_id, TRUE,
                      "verification_submitted", {"verification_pending"})

\* handle_payment_proof: both tables are committed; the statement that then
\* computes the remaining balance calls .fetchone() on the None that
\* cursor.execute returns, so the except branch answers and the session stays
handle_payment_proof(messenger_id, order_id, payment_method, amount) ==
    /\ order_verifications' =
          ProofUpsert(order_verifications, order_id, payment_method, amount)
    /\ orders' = UnderReview(orders, order_id)
    /\ UNCHANGED conversation_state
    /\ last' = Answer("handle_payment_proof", messenger_id, FALSE,
                      "error_saving_payment_proof", {})

\* an attachment event: has_image tells whether one of the attachments is an
\* image with a url
handle_attachment(sender_id, has_image) ==
    LET st == StateOf(sender_id)
        data == conversation_state[sender_id].data
    IN  /\ IF ~is_in_conversation(sender_id)
             THEN /\ last' = Answer("handle_attachment", sender_id, TRUE,
                                    "start_an_order_first", {})
                  /\ UNCHANGED <<conversation_state, orders, order_verifications>>
           ELSE IF ~has_image
             THEN /\ last' = Answer("handle_attachment", sender_id, TRUE,
                                    "invalid_image", {})
                  /\ UNCHANGED <<conversation_state, orders, order_verifications>>
           ELSE IF st = AWAITING_ID_UPLOAD
             THEN handle_id_upload(sender_id, data.order_id)
           ELSE IF st = AWAITING_SELFIE_UPLOAD
             THEN handle_selfie_upload(sender_id, data.order_id)
           ELSE IF st = AWAITING_PAYMENT_PROOF
             THEN handle_payment_proof(sender_id, data.order_id,
                                       data.payment_method, data.amount)
           ELSE /\ last' = Answer("handle_attachment", sender_id, TRUE,
                                  "not_expecting_an_image", {})
                /\ UNCHANGED <<conversation_state, orders, order_verifications>>
        /\ UNCHANGED <<products, users, order_items, inventory_logs,
                       next_order_id, row_lock, calls, admin_ops, initial_stock, now, processed_events>>

(***************************************************************************)
(* The system.  Spec: one buyer, the new customer u1, walking through the   *)
(* order flow and checking out.  SpecCheckout: both buyers have completed   *)
(* the order flow against the product's stock at start and check out        *)
(* concurrently.  SpecAdmin: the same checkouts with the admin API acting   *)
(* on the orders they create.                                               *)
(***************************************************************************)
Buyers == {"u1"}
CallOf(sender_id) == IF sender_id = "u1" THEN "c1" ELSE "c2"

OrderRequest(U) == \E u \in U, p \in ProductIds : handle_order_request(u, p)
UserMessage(U) == \E u \in U, t \in Texts : handle_user_message(u, t)
PaymentMethod(U) ==
    \E u \in U, m \in PaymentMethods : process_payment_method(u, m)
CancelFlow(U) == \E u \in U : cancel_order(u)
ConfirmOrder(U) == \E u \in U : ConfirmStart(CallOf(u), u)
Lock == \E c \in Calls : LockProduct(c)
Insufficient == \E c \in Calls : InsufficientReply(c)
CommitOrder == \E c \in Calls : Commit(c)
Failure == \E c \in Calls, at \in 0..COMMIT_POINT : Fail(c, at)
AfterCommit == \E c \in Calls : PostCommit(c)
LateFailure == \E c \in Calls, f \in PostCommitFaults : PostCommitFault(c, f)
Checkout(U) ==
    \/ ConfirmOrder(U)
    \/ Lock
    \/ Insufficient
    \/ CommitOrder
    \/ Failure
    \/ AfterCommit
    \/ LateFailure
VerifyId(U) == \E u \in U, o \in DOMAIN orders : start_id_verification(u, o)
VerifyUpfront(U) == \E u \in U, o \in OrderIds : start_upfront_payment(u, o)
PayUpfront(U) ==
    \E u \in U, o \in OrderIds, m \in UpfrontMethods :
        send_payment_instructions(u, o, m)
Attachment(U) == \E u \in U, has_image \in BOOLEAN : handle_attachment(u, has_image)
AdminUpdateStatus ==
    \E o \in OrderIds, s \in ValidStatuses : update_order_status(o, s)
AdminConfirm == \E o \in OrderIds, n \in AdminNotes : confirm_order_by_admin(o, n)
AdminCancel == \E o \in OrderIds : cancel_order_by_admin(o, CancelReason)
AdminApprove == \E o \in OrderIds : approve_verification(o)
AdminReject == \E o \in OrderIds : reject_verification(o, RejectReason)

Next ==
    \/ OrderRequest(Buyers)
    \/ UserMessage(Buyers)
    \/ PaymentMethod(Buyers)
    \/ CancelFlow(Buyers)
    \/ Checkout(Buyers)

Spec == Init /\ [][Next]_vars

\* the session of a buyer who started the flow when the product held `stock`
\* units, typed the quantity and the contact details, and chose a payment
CompletedFlow(cs, u, p, stock, quantity_text, payment_method) ==
    LET product == [stock_quantity |-> stock, sales_count |-> 0,
                    base_price |-> ProductPrice]
        cs1 == RequestStep(cs, u, p, product)
        cs2 == QuantityStep(cs1, u, quantity_text)
        cs3 == NameStep(cs2, u, ContactText)
        cs4 == PhoneStep(cs3, u, ContactText)
        cs5 == AddressStep(cs4, u, ContactText)
    IN  PaymentStep(cs5, u, payment_method)

QuantityTexts == {<<"1">>, <<"2">>, <<"3">>}
\* one method that can require verification, one that never does
CheckoutMethods == {"cod", "gcash"}

InitCheckout ==
    \E stock \in 1..InitStock :
        /\ InitStore(stock)
        /\ \E t1, t2 \in QuantityTexts, m1, m2 \in CheckoutMethods :
              /\ validate_quantity(t1).value <= stock
              /\ validate_quantity(t2).value <= stock
              /\ \E cs \in {CompletedFlow(<<>>, "u1", "p1", stock, t1, m1)} :
                    conversation_state =
                        CompletedFlow(cs, "u2", "p1", stock, t2, m2)

NextCheckout == Checkout(Users)

SpecCheckout == InitCheckout /\ [][NextCheckout]_vars

NextAdmin ==
    \/ Checkout(Users)
    \/ AdminUpdateStatus
    \/ AdminConfirm
    \/ AdminCancel
    \/ AdminApprove
    \/ AdminReject

SpecAdmin == InitCheckout /\ [][NextAdmin]_vars

\* the session of a buyer who has gone through the first `steps` steps of the
\* flow
FlowPrefix(cs, u, p, stock, quantity_text, payment_method, steps) ==
    LET product == [stock_quantity |-> stock, sales_count |-> 0,
                    base_price |-> ProductPrice]
        cs1 == RequestStep(cs, u, p, product)
        cs2 == QuantityStep(cs1, u, quantity_text)
        cs3 == NameStep(cs2, u, ContactText)
        cs4 == PhoneStep(cs3, u, ContactText)
        cs5 == AddressStep(cs4, u, ContactText)
    IN  CASE steps = 1 -> cs1
          [] steps = 2 -> cs2
          [] steps = 3 -> cs3
          [] steps = 4 -> cs4
          [] steps = 5 -> cs5
          [] OTHER -> PaymentStep(cs5, u, payment_method)

FlowSteps == 1..6

\* SpecVerify: the buyer u1 is somewhere in the order flow, after a checkout
\* that failed and was rolled back once its order id was taken; the one
\* checkout left (whose stock cannot be short), the verification sub-flow,
\* the cancel button and the admin's decisions on verifications act
InitVerify ==
    \E stock \in 1..InitStock :
        /\ StoreAt(stock, MaxOrders)
        /\ \E t \in QuantityTexts, m \in CheckoutMethods, k \in FlowSteps :
              /\ validate_quantity(t).value <= stock
              /\ conversation_state =
                    FlowPrefix(<<>>, "u1", "p1", stock, t, m, k)

NextVerify ==
    \/ ConfirmOrder(Buyers)
    \/ Lock
    \/ CommitOrder
    \/ Failure
    \/ AfterCommit
    \/ LateFailure
    \/ CancelFlow(Buyers)
    \/ VerifyId(Buyers)
    \/ VerifyUpfront(Buyers)
    \/ PayUpfront(Buyers)
    \/ Attachment(Buyers)
    \/ AdminApprove
    \/ AdminReject

SpecVerify == InitVerify /\ [][NextVerify]_vars


(***************************************************************************)
(* SpecInput: the buyer u1 is at the quantity step of a flow started when   *)
(* the product held one of StockLevels units, or at the phone step, and     *)
(* types one of the texts below.  Each text comes with what was typed: the  *)
(* number and how it was written, or the phone number before separators     *)
(* were put into it.                                                        *)
(***************************************************************************)
MaxTyped == 101
StockLevels == {1, 7, 120}

DigitChar(d) == CHOOSE ch \in Digits : DigitValue(ch) = d

\* str(n) of a natural number
RECURSIVE DecimalText(_)
DecimalText(n) ==
    IF n < 10 THEN <<DigitChar(n)>>
    ELSE DecimalText(n \div 10) \o <<DigitChar(n % 10)>>

QuantityForms == {"plain", "plus", "minus", "padded", "zero", "junk", "dot"}

\* the number n typed in one of the forms; int() takes a sign, blanks around
\* the number and leading zeros, and raises ValueError on the last two forms
QuantityCase(form, n) ==
    LET d == DecimalText(n)
    IN  CASE form = "plain" -> [text |-> d, parses |-> TRUE, value |-> n]
          [] form = "plus" ->
                [text |-> <<"+">> \o d, parses |-> TRUE, value |-> n]
          [] form = "minus" ->
                [text |-> <<"-">> \o d, parses |-> TRUE, value |-> 0 - n]
          [] form = "padded" ->
                [text |-> <<" ">> \o d \o <<" ">>, parses |-> TRUE, value |-> n]
          [] form = "zero" ->
                [text |-> <<"0">> \o d, parses |-> TRUE, value |-> n]
          [] form = "junk" ->
                [text |-> d \o <<"x">>, parses |-> FALSE, value |-> 0]
          [] form = "dot" ->
                [text |-> d \o <<".", "0">>, parses |-> FALSE, value |-> 0]

QuantityCases ==
    {QuantityCase(form, n) : form \in QuantityForms, n \in 0..MaxTyped}
        \cup {[text |-> <<"x">>, parses |-> FALSE, value |-> 0]}

\* phone numbers as typed, before any separator: a prefix and a subscriber
\* part
PhonePrefixes ==
    {<<"0", "9">>, <<"+", "6", "3", "9">>, <<"6", "3", "9">>, <<"0", "8">>,
     <<"+", "6", "3", "8">>, <<"+", "6", "3">>, <<"6", "3">>, <<"9">>, <<>>,
     <<"0", "0", "6", "3", "9">>, <<"+", "0", "9">>}
PhoneBodies ==
    {<<"1", "7", "1", "2", "3", "4", "5", "6", "7">>,
     <<"9", "9", "9", "9", "9", "9", "9", "9", "9">>,
     <<"0", "0", "0", "0", "0", "0", "0", "0", "0">>,
     <<"1", "7", "1", "2", "3", "4", "5", "6">>,
     <<"9", "1", "7", "1", "2", "3", "4", "5", "6", "7">>,
     <<"1", "7", "1", "2", "3", "4", "5", "6", "a">>,
     <<"1", "7", "1", "2", "+", "4", "5", "6", "7">>,
     <<"1", "7", "1", ".", "3", "4", "5", "6", "7">>}
PhoneCores == {pre \o body : pre \in PhonePrefixes, body \in PhoneBodies}

PhoneStyles == {"bare", "dashes", "blanks", "parens", "padded"}

\* the way people write a number: 0917-123-4567, 0917 123 4567,
\* (0917)1234567, blanks around it
Decorate(style, core) ==
    LET n == Len(core)
        a == SubSeq(core, 1, 4)
        b == SubSeq(core, 5, 7)
        c == SubSeq(core, 8, n)
    IN  CASE style = "bare" -> core
          [] style = "dashes" -> a \o <<"-">> \o b \o <<"-">> \o c
          [] style = "blanks" -> a \o <<" ">> \o b \o <<" ">> \o c
          [] style = "parens" -> <<"(">> \o a \o <<")", " ">> \o b \o c
          [] style = "padded" -> <<" ">> \o core \o <<" ", " ">>

PhoneCases ==
    {[text |-> Decorate(style, core), core |-> core] :
        style \in PhoneStyles, core \in PhoneCores}

InitInput ==
    \E stock \in StockLevels :
        /\ StoreAt(stock, 1)
        /\ \E k \in {1, 3} :
              conversation_state =
                  FlowPrefix(<<>>, "u1", "p1", stock, <<"1">>, "cod", k)

TypeQuantity ==
    \E c \in QuantityCases :
        /\ StateOf("u1") = AWAITING_QUANTITY
        /\ handle_user_message("u1", c.text)

TypePhone ==
    \E c \in PhoneCases :
        /\ StateOf("u1") = AWAITING_PHONE
        /\ handle_user_message("u1", c.text)

NextInput == TypeQuantity \/ TypePhone

SpecInput == InitInput /\ [][NextInput]_vars

(***************************************************************************)
(* SpecDecision: one buyer, trusted or not, who has placed 0..MaxPrior      *)
(* orders before, has completed the flow and checks out.                    *)
(***************************************************************************)
MaxPrior == 4

InitDecision ==
    \E stock \in 1..InitStock, u \in Users, n \in 0..MaxPrior :
        /\ StoreWith(stock, 1,
                     [x \in Users |-> IF x = u THEN n ELSE EstablishedOrders])
        /\ \E t \in QuantityTexts, m \in CheckoutMethods :
              /\ validate_quantity(t).value <= stock
              /\ conversation_state = CompletedFlow(<<>>, u, "p1", stock, t, m)

NextDecision == Checkout(Users)

SpecDecision == InitDecision /\ [][NextDecision]_vars

(***************************************************************************)
(* SpecRepeat: one buyer has completed the flow and presses CONFIRM ORDER   *)
(* again and again; the webhook serves each postback in a request of its    *)
(* own, so a second one may arrive while the first is being served.  No     *)
(* new flow is started.                                                     *)
(***************************************************************************)
ConfirmAgain(U) == \E u \in U, c \in Calls : ConfirmStart(c, u)

NextRepeat ==
    \/ ConfirmAgain(Users)
    \/ Lock
    \/ Insufficient
    \/ CommitOrder
    \/ Failure
    \/ AfterCommit
    \/ LateFailure

SpecRepeat == InitDecision /\ [][NextRepeat]_vars

(***************************************************************************)
(* SpecName: the buyer u1 is at the name step and types a name.  Each name  *)
(* comes with how it was typed: blanks in front, a first word of `first`    *)
(* letters, a run of blanks, a second word of `second` letters, blanks      *)
(* behind.                                                                  *)
(***************************************************************************)
Repeat(ch, n) == [i \in 1..n |-> ch]

\* lengths of the two words; the long ones sit around MAX_NAME_LEN
NameWords ==
    {<<0, 0>>, <<1, 0>>, <<2, 0>>, <<3, 0>>, <<0, 2>>, <<1, 1>>, <<1, 2>>,
     <<2, 1>>, <<2, 2>>, <<3, 2>>, <<127, 127>>, <<127, 128>>, <<126, 128>>,
     <<253, 0>>, <<254, 0>>, <<255, 0>>, <<256, 0>>}
NameLead == {0, 1}
NameGap == {0, 1, 2}
NameTrail == {0, 2}

NameCase(lead, words, gap, trail) ==
    [text |-> Repeat(" ", lead) \o Repeat("a", words[1]) \o Repeat(" ", gap)
                \o Repeat("b", words[2]) \o Repeat(" ", trail),
     lead |-> lead, first |-> words[1], gap |-> gap, second |-> words[2],
     trail |-> trail]

NameCases ==
    {NameCase(lead, words, gap, trail) :
        lead \in NameLead, words \in NameWords, gap \in NameGap,
        trail \in NameTrail}

InitName ==
    \E stock \in StockLevels :
        /\ StoreAt(stock, 1)
        /\ \E t \in QuantityTexts :
              /\ validate_quantity(t).value <= stock
              /\ conversation_state =
                    FlowPrefix(<<>>, "u1", "p1", stock, t, "cod", 2)

TypeName ==
    \E c \in NameCases :
        /\ StateOf("u1") = AWAITING_NAME
        /\ handle_user_message("u1", c.text)

NextName == TypeName

SpecName == InitName /\ [][NextName]_vars

(***************************************************************************)
(* SpecPrice: the buyer u1 has just started a flow and goes through it and  *)
(* the checkout while the catalogue changes under it: the product's         *)
(* base_price is raised in the database, and the buyer u2, whose flow is    *)
(* complete, checks out and takes stock.                                    *)
(***************************************************************************)
RaisedPrice == 2600
Prices == {ProductPrice, RaisedPrice}

\* products.base_price is changed by whoever maintains the catalogue
ProductRepriced(product_id, price) ==
    /\ products[product_id].base_price < price
    /\ products' = [products EXCEPT ![product_id].base_price = price]
    /\ last' = Answer("product_repriced", product_id, TRUE, "none", {})
    /\ UNCHANGED <<conversation_state, users, orders, order_items,
                   inventory_logs, order_verifications, next_order_id,
                   row_lock, calls, admin_ops, initial_stock, now, processed_events>>

Reprice == \E p \in ProductIds, v \in Prices : ProductRepriced(p, v)

InitPrice ==
    /\ InitStore(InitStock)
    /\ \E t \in QuantityTexts, m \in CheckoutMethods :
          /\ validate_quantity(t).value <= InitStock
          /\ \E cs \in {CompletedFlow(<<>>, "u2", "p1", InitStock, t, m)} :
                conversation_state =
                    FlowPrefix(cs, "u1", "p1", InitStock, t, m, 1)

NextPrice ==
    \/ UserMessage(Buyers)
    \/ PaymentMethod(Buyers)
    \/ Checkout(Users)
    \/ Reprice

SpecPrice == InitPrice /\ [][NextPrice]_vars

(***************************************************************************)
(* The conversation store on its own, with a clock that advances: sessions  *)
(* are set, read, updated, cleared and swept while time passes.             *)
(***************************************************************************)
ClockSteps == {15, 16}   \* minutes that pass between two calls
MaxClock == 32           \* the clock stops here

StoreStates == {AWAITING_QUANTITY, AWAITING_NAME}
\* data=None and the dict handle_order_request starts a flow with
StoreData == {<<>>, [product_id |-> "p1"]}
StoreKeys == {"quantity"}
StoreValues == {1, 2}

\* what a store function returned: value is {} for None and {d} for the
\* dict d, count the number cleanup_expired_states returns
Returned(op, arg, ok, value, count) ==
    [op |-> op, arg |-> arg, ok |-> ok, msg |-> "none", notified |-> {},
     value |-> value, count |-> count]

\* a variant that treats the deadline itself as expired
ExpiredAtDeadline(state_data) == now >= state_data.expires_at

\* datetime.now() > state_data['expires_at']
Expired(state_data) == now > state_data.expires_at

\* a variant that sweeps every session
AllUsers(cs) == DOMAIN cs

\* expired_users of cleanup_expired_states
expired_users(cs) == {u \in DOMAIN cs : now > cs[u].expires_at}

StoreFrame ==
    UNCHANGED <<store, row_lock, calls, admin_ops>>

set_conversation_state(user_id, state, data) ==
    /\ conversation_state' = SetState(conversation_state, user_id, state, data)
    /\ last' = Returned("set_conversation_state", user_id, TRUE, {}, 0)
    /\ UNCHANGED <<now, processed_events>>
    /\ StoreFrame

get_conversation_state(user_id) ==
    /\ IF user_id \notin DOMAIN conversation_state
          THEN /\ last' = Returned("get_conversation_state", user_id, FALSE, {}, 0)
               /\ UNCHANGED conversation_state
          ELSE IF Expired(conversation_state[user_id])
          THEN /\ conversation_state' = ClearState(conversation_state, user_id)
               /\ last' = Returned("get_conversation_state", user_id, FALSE, {}, 0)
          ELSE /\ last' = Returned("get_conversation_state", user_id, TRUE,
                                    {conversation_state[user_id]}, 0)
               /\ UNCHANGED conversation_state
    /\ UNCHANGED <<now, processed_events>>
    /\ StoreFrame

update_conversation_data(user_id, key, value) ==
    /\ conversation_state' = UpdateData(conversation_state, user_id, key, value)
    /\ last' = Returned("update_conversation_data", user_id, TRUE, {}, 0)
    /\ UNCHANGED <<now, processed_events>>
    /\ StoreFrame

clear_conversation_state(user_id) ==
    /\ conversation_state' = ClearState(conversation_state, user_id)
    /\ last' = Returned("clear_conversation_state", user_id, TRUE, {}, 0)
    /\ UNCHANGED <<now, processed_events>>
    /\ StoreFrame

cleanup_expired_states ==
    /\ conversation_state' =
          [u \in DOMAIN conversation_state \ expired_users(conversation_state)
              |-> conversation_state[u]]
    /\ last' = Returned("cleanup_expired_states", "none", TRUE, {},
                        Cardinality(expired_users(conversation_state)))
    /\ UNCHANGED <<now, processed_events>>
    /\ StoreFrame

\* time passes between two calls
Tick ==
    \E d \in ClockSteps :
        /\ now + d <= MaxClock
        /\ now' = now + d
        /\ UNCHANGED <<conversation_state, store, row_lock, calls, admin_ops,
                       last, processed_events>>

StoreSet ==
    \E u \in Users, st \in StoreStates, d \in StoreData :
        set_conversation_state(u, st, d)
StoreGet == \E u \in Users : get_conversation_state(u)
StoreUpdate ==
    \E u \in Users, k \in StoreKeys, v \in StoreValues :
        update_conversation_data(u, k, v)
StoreClear == \E u \in Users : clear_conversation_state(u)
StoreCleanup == cleanup_expired_states

NextStore ==
    \/ StoreSet
    \/ StoreGet
    \/ StoreUpdate
    \/ StoreClear
    \/ StoreCleanup
    \/ Tick

SpecStore == Init /\ [][NextStore]_vars

(***************************************************************************)
(* SpecWebhook: GET requests to /webhook (app.webhook).  A query argument   *)
(* is <<>> when the request does not carry it (request.args.get gives None) *)
(* and <<text>> when it does.                                               *)
(***************************************************************************)
VERIFY_TOKEN == "my_secret_token"

HubModes == {<<>>, <<"subscribe">>, <<"unsubscribe">>, <<"">>, <<"Subscribe">>}
HubTokens ==
    {<<>>, <<VERIFY_TOKEN>>, <<"">>, <<"my_secret_tokeN">>,
     <<"my_secret_token ">>, <<"my_secret">>, <<"other">>}
HubChallenges == {<<>>, <<"">>, <<"1158201444">>, <<"challenge">>}

\* what the client receives: the status and the body
Response(status, body) == [status |-> status, body |-> body]

\* the GET branch of webhook(); a view that returns None as its body makes
\* Flask answer 500
webhook_get(mode, token, challenge) ==
    IF mode = <<"subscribe">> /\ token = <<VERIFY_TOKEN>>
        THEN IF challenge = <<>> THEN Response(500, <<"Internal Server Error">>)
             ELSE Response(200, challenge)
    ELSE Response(403, <<"Verification token mismatch">>)

WebhookGet(mode, token, challenge) ==
    /\ last' = [op |-> "webhook_get",
                arg |-> [mode |-> mode, token |-> token,
                         challenge |-> challenge],
                ok |-> TRUE, msg |-> "none", notified |-> {},
                response |-> webhook_get(mode, token, challenge)]
    /\ UNCHANGED <<conversation_state, store, row_lock, calls, admin_ops, now, processed_events>>

NextWebhook ==
    \E mode \in HubModes, token \in HubTokens, challenge \in HubChallenges :
        WebhookGet(mode, token, challenge)

SpecWebhook == Init /\ [][NextWebhook]_vars


(***************************************************************************)
(* Properties of Order Materialization, checked under SpecCheckout.         *)
(***************************************************************************)
OrderCount == Cardinality(DOMAIN orders)

\* the rows a checkout writes
CheckoutTables == <<orders, order_items, inventory_logs, products, users>>

\* C1: two concurrent checkouts of quantity 1 against a product whose stock
\* is 1: never two commits; the call that observes insufficient stock does so
\* only once the other's order is committed, and then there is exactly one
\* order, one order item and one inventory log row and stock_quantity is 0.
C1_LastUnitSoldOnce ==
    initial_stock["p1"] = 1 =>
        /\ OrderCount <= 1
        /\ Cardinality(order_items) = OrderCount
        /\ Len(inventory_logs) = OrderCount
        /\ products["p1"].stock_quantity = 1 - OrderCount
        /\ products["p1"].sales_count = OrderCount
        /\ ((\E c \in Calls : calls[c].pc = "rolled_back")
               \/ last.msg = "insufficient_stock")
              => OrderCount = 1 /\ products["p1"].stock_quantity = 0

\* both calls in flight, one has committed and the other has seen no stock
C1_Witness ==
    /\ initial_stock["p1"] = 1
    /\ calls["c1"].pc = "committed"
    /\ calls["c2"].pc = "rolled_back"
    /\ calls["c1"].data.quantity = 1 /\ calls["c2"].data.quantity = 1
    /\ OrderCount = 1
    /\ products["p1"].stock_quantity = 0

\* the committed stock is short of what call c's session asks for
ShortFor(c) ==
    products[calls[c].data.product_id].stock_quantity < calls[c].data.quantity

\* C6: when the product row read at final commit holds less than the
\* session's quantity, the checkout never goes on to its writes: it rolls
\* back, and the step that answers leaves orders, order items, inventory
\* logs, the product and the user rows as they were, sends the
\* insufficient-stock message and leaves the user without a session.
C6_InsufficientStockAborts ==
    [][\A c \in Calls :
         /\ (calls[c].pc = "txn" /\ ShortFor(c) /\ calls'[c].pc # "txn")
               => /\ calls'[c].pc \in {"rolled_back", "idle"}
                  /\ UNCHANGED CheckoutTables
         /\ (calls[c].pc = "rolled_back" /\ calls'[c] # calls[c])
               => /\ calls'[c].pc = "idle"
                  /\ UNCHANGED CheckoutTables
                  /\ calls[c].user \notin DOMAIN conversation_state'
                  /\ last' = Answer("confirm_and_create_order", calls[c].user,
                                    FALSE, "insufficient_stock", {})
      ]_vars

\* a buyer has been told the stock is insufficient, after another order took it
C6_Witness ==
    /\ last.op = "confirm_and_create_order"
    /\ last.msg = "insufficient_stock"
    /\ last.arg \notin DOMAIN conversation_state
    /\ OrderCount = 1
    /\ \A o \in DOMAIN orders : orders[o].user_id # last.arg

\* C7: a checkout that ends on an exception, at whichever statement of its
\* transaction, leaves orders, order items, inventory logs, the product row
\* and the user row as they were before the step, and tells the buyer that
\* the order failed.
C7_FailureRollsBack ==
    [][\A c \in Calls :
         (calls[c].pc \in {"txn", "locked"} /\ calls'[c].pc = "idle")
            => /\ UNCHANGED CheckoutTables
               /\ last' = Answer("confirm_and_create_order", calls[c].user,
                                 FALSE, "order_failed", {})
      ]_vars

\* a checkout failed after its INSERT INTO orders: the id is used up, no row
C7_Witness ==
    /\ last.msg = "order_failed"
    /\ next_order_id = 2
    /\ orders = <<>> /\ order_items = {} /\ inventory_logs = <<>>
    /\ products["p1"].stock_quantity = initial_stock["p1"]

\* C10: when confirm_and_create_order returns after a commit (verification
\* required or not) or after the insufficient-stock abort, the user has no
\* conversation session.
C10_SessionAbsentOnReturn ==
    (/\ last.op = "confirm_and_create_order"
     /\ last.msg \in {"order_confirmed", "verification_options",
                      "insufficient_stock"})
        => last.arg \notin DOMAIN conversation_state

(***************************************************************************)
(* Properties of the admin API and of the order life cycle, checked under   *)
(* SpecAdmin.                                                               *)
(***************************************************************************)
\* the admin request just served was `op` on order o
Served(op, o) ==
    /\ admin_ops' = admin_ops + 1
    /\ last'.op = op
    /\ last'.arg = o

\* C2: an order is confirmed only if it needs no verification or its
\* verification_status is approved/verified and it has an approved
\* verification record.
C2_VerificationGate ==
    \A o \in DOMAIN orders :
        orders[o].order_status = "confirmed" =>
            \/ ~orders[o].verification_required
            \/ /\ orders[o].verification_status \in {"approved", "verified"}
               /\ o \in DOMAIN order_verifications
               /\ order_verifications[o].verification_status = "approved"

\* C3: admin cancel on an order that is already cancelled or delivered
\* returns failure and leaves the orders, the products and the inventory log
\* unchanged.
C3_CancelRefusedOnTerminal ==
    [][\A o \in DOMAIN orders :
         (orders[o].order_status \in {"cancelled", "delivered"}
            /\ Served("cancel_order_by_admin", o))
           => /\ last'.ok = FALSE
              /\ UNCHANGED <<orders, products, inventory_logs>>
      ]_vars

RECURSIVE SumQuantity(_)
SumQuantity(items) ==
    IF items = {} THEN 0
    ELSE LET i == CHOOSE x \in items : TRUE
         IN  i.quantity + SumQuantity(items \ {i})

\* the order items of product p whose order is not cancelled
HeldItems(p) ==
    {i \in order_items :
        i.product_id = p /\ orders[i.order_id].order_status # "cancelled"}

\* C4: for each product, stock_quantity plus the quantities of its order
\* items in non-cancelled orders equals the product's initial stock.
C4_StockConservation ==
    \A p \in ProductIds :
        products[p].stock_quantity + SumQuantity(HeldItems(p)) = initial_stock[p]

\* C5: admin cancel of a confirmed order of quantity q, the amount its
\* stock_out log took, raises the product's stock_quantity by q and appends
\* one inventory log row of type 'return' with quantity_change = q,
\* new_stock - previous_stock = q and new_stock the stock after the step.
C5_CancelRestoresQuantity ==
    [][\A o \in DOMAIN orders :
         (orders[o].order_status = "confirmed"
            /\ Served("cancel_order_by_admin", o))
           => \A i \in {x \in order_items : x.order_id = o} :
                LET p == i.product_id
                    q == i.quantity
                    row == inventory_logs'[Len(inventory_logs')]
                IN  /\ \E k \in 1..Len(inventory_logs) :
                          /\ inventory_logs[k].transaction_type = "stock_out"
                          /\ inventory_logs[k].reference_id = o
                          /\ inventory_logs[k].quantity_change = 0 - q
                    /\ products'[p].stock_quantity =
                          products[p].stock_quantity + q
                    /\ Len(inventory_logs') = Len(inventory_logs) + 1
                    /\ SubSeq(inventory_logs', 1, Len(inventory_logs)) =
                          inventory_logs
                    /\ row.transaction_type = "return"
                    /\ row.product_id = p
                    /\ row.quantity_change = q
                    /\ row.new_stock - row.previous_stock = q
                    /\ row.new_stock = products'[p].stock_quantity
      ]_vars

\* an order of two units was confirmed by the admin and then cancelled
C5_Witness ==
    /\ last.op = "cancel_order_by_admin"
    /\ last.ok
    /\ last.arg \in DOMAIN orders
    /\ orders[last.arg].order_status = "cancelled"
    /\ orders[last.arg].confirmed_at = 1
    /\ orders[last.arg].cancelled_at = 1
    /\ \E i \in order_items : i.order_id = last.arg /\ i.quantity = 2
    /\ inventory_logs[Len(inventory_logs)].transaction_type = "return"

\* the place of a status on the forward path
Rank(status) ==
    CASE status = "pending" -> 0
      [] status = "confirmed" -> 1
      [] status = "processing" -> 2
      [] status = "shipped" -> 3
      [] status = "delivered" -> 4
      [] OTHER -> 5

\* C8: order_status only moves forward along pending, confirmed, processing,
\* shipped, delivered, or to cancelled from a non-delivered state, and never
\* changes once cancelled or delivered.
C8_StatusMonotonic ==
    [][\A o \in DOMAIN orders :
         LET old == orders[o].order_status
             new == orders'[o].order_status
         IN  new # old =>
                /\ old \notin {"cancelled", "delivered"}
                /\ new = "cancelled" \/ Rank(new) > Rank(old)
      ]_vars

\* C9: admin confirm on an order that is already confirmed, cancelled or
\* delivered returns failure and leaves its order_status, confirmed_at and
\* notes unchanged.
C9_ConfirmRefusedOnSettled ==
    [][\A o \in DOMAIN orders :
         (orders[o].order_status \in {"confirmed", "cancelled", "delivered"}
            /\ Served("confirm_order_by_admin", o))
           => /\ last'.ok = FALSE
              /\ orders'[o].order_status = orders[o].order_status
              /\ orders'[o].confirmed_at = orders[o].confirmed_at
              /\ orders'[o].notes = orders[o].notes
      ]_vars


(***************************************************************************)
(* Properties of the Order Flow Controller, checked under Spec.             *)
(***************************************************************************)
FlowOrder ==
    <<AWAITING_QUANTITY, AWAITING_NAME, AWAITING_PHONE, AWAITING_ADDRESS,
      AWAITING_PAYMENT_METHOD, AWAITING_CONFIRMATION>>

\* the position of a step in the order flow, 0 for a state outside it
FlowRank(st) ==
    IF \E i \in DOMAIN FlowOrder : FlowOrder[i] = st
        THEN CHOOSE i \in DOMAIN FlowOrder : FlowOrder[i] = st
    ELSE 0

\* the text validates as the input of step st of a session holding `data`
Validates(st, data, text) ==
    CASE st = AWAITING_QUANTITY ->
            validate_quantity(text).ok
                /\ validate_quantity(text).value <= data.max_stock
      [] st = AWAITING_NAME -> validate_name(text).ok
      [] st = AWAITING_PHONE -> validate_phone_number(text).ok
      [] st = AWAITING_ADDRESS -> validate_address(text).ok
      [] OTHER -> FALSE

\* the fields collected so far are all still there, with their values
FieldsKept(u) ==
    LET data == conversation_state[u].data
    IN  \A k \in DOMAIN data :
            k \in DOMAIN conversation_state'[u].data
                /\ conversation_state'[u].data[k] = data[k]

\* the handlers that replace the session by a new one
SessionStarters ==
    {"handle_order_request", "start_id_verification", "send_payment_instructions"}

\* C11: a text in one of the four text steps moves the session one step
\* forward, keeping the collected fields, when it validates for that step and
\* otherwise leaves every session as it was; a payment choice moves a session
\* from AWAITING_PAYMENT_METHOD to AWAITING_CONFIRMATION and does nothing in
\* any other step; and no step of the system that keeps a session moves its
\* order-flow step backwards or by more than one.
C11_ForwardOnValidInput ==
    [][\A u \in Buyers :
         LET st == StateOf(u)
             r == FlowRank(st)
         IN  /\ \A t \in Texts :
                   (handle_user_message(u, t) /\ r \in 1..4)
                      => IF Validates(st, conversation_state[u].data, t)
                           THEN /\ FlowRank(StateOf(u)') = r + 1
                                /\ FieldsKept(u)
                           ELSE conversation_state' = conversation_state
             /\ \A m \in PaymentMethods :
                   process_payment_method(u, m)
                      => IF st = AWAITING_PAYMENT_METHOD
                           THEN /\ StateOf(u)' = AWAITING_CONFIRMATION
                                /\ FieldsKept(u)
                           ELSE conversation_state' = conversation_state
             /\ (r > 0 /\ HasSession(u)' /\ last'.op \notin SessionStarters)
                   => FlowRank(StateOf(u)') \in {r, r + 1}
      ]_vars

\* a rejected phone number: the session is still at AWAITING_PHONE
C11_Witness ==
    /\ last.op = "handle_user_message"
    /\ last.msg = "rejected"
    /\ StateOf("u1") = AWAITING_PHONE


(***************************************************************************)
(* Properties of the cancel button and of the Verification Sub-flow,        *)
(* checked under SpecVerify.                                                *)
(***************************************************************************)
VerificationStates ==
    {AWAITING_ID_UPLOAD, AWAITING_SELFIE_UPLOAD, AWAITING_PAYMENT_PROOF}

\* C12: a CANCEL_ORDER postback of a user whose session is in a non-idle
\* state (order flow or verification) removes the session, writes nothing to
\* orders, order_items, products or inventory_logs, and leaves no persisted
\* order for the flow: in a verification state, the order the session is
\* about is not in the orders table afterwards.
C12_CancelLeavesNoOrder ==
    [][\A u \in Buyers :
         (cancel_order(u) /\ is_in_conversation(u))
            => /\ ~HasSession(u)'
               /\ UNCHANGED <<orders, order_items, products, inventory_logs>>
               /\ StateOf(u) \in VerificationStates
                     => conversation_state[u].data.order_id \notin DOMAIN orders'
      ]_vars


(***************************************************************************)
(* Properties of the validators, checked under SpecInput.                   *)
(***************************************************************************)
\* C13: at AWAITING_QUANTITY a text that parses as an integer q with
\* 1 <= q <= 99 and q <= max_stock is accepted: the session moves to
\* AWAITING_NAME with quantity = q and subtotal = unit price * q; any other
\* text leaves every session as it was.
C13_QuantityAccepted ==
    [][\A c \in QuantityCases :
         (StateOf("u1") = AWAITING_QUANTITY /\ handle_user_message("u1", c.text))
            => LET data == conversation_state["u1"].data
                   data2 == conversation_state'["u1"].data
               IN  IF c.parses /\ 1 <= c.value /\ c.value <= 99
                      /\ c.value <= data.max_stock
                     THEN /\ StateOf("u1")' = AWAITING_NAME
                          /\ data2.quantity = c.value
                          /\ data2.subtotal = data.product_price * c.value
                          /\ FieldsKept("u1")
                     ELSE conversation_state' = conversation_state
      ]_vars

\* 99 units were accepted against a stock of 120
C13_Witness ==
    /\ StateOf("u1") = AWAITING_NAME
    /\ last.msg = "accepted"
    /\ conversation_state["u1"].data.max_stock = 120
    /\ conversation_state["u1"].data.quantity = 99

\* the number has one of the three forms: 09, +639 or 639, then 9 digits
MatchesForm(core) ==
    \E pre \in {<<"0", "9">>, <<"+", "6", "3", "9">>, <<"6", "3", "9">>} :
        /\ Len(core) = Len(pre) + 9
        /\ SubSeq(core, 1, Len(pre)) = pre
        /\ \A i \in Len(pre) + 1..Len(core) : core[i] \in Digits

Canonical(core) ==
    <<"+", "6", "3", "9">> \o SubSeq(core, Len(core) - 8, Len(core))

\* C14: a phone number typed with blanks, dashes or parentheses in it is
\* accepted exactly when, without them, it is 09, +639 or 639 followed by 9
\* digits, and what is stored is +639 followed by the same 9 digits; every
\* other text is rejected and changes nothing.
C14_PhoneNormalised ==
    [][\A c \in PhoneCases :
         (StateOf("u1") = AWAITING_PHONE /\ handle_user_message("u1", c.text))
            => IF MatchesForm(c.core)
                 THEN /\ StateOf("u1")' = AWAITING_ADDRESS
                      /\ conversation_state'["u1"].data.phone = Canonical(c.core)
                 ELSE /\ conversation_state' = conversation_state
                      /\ last'.msg = "rejected"
      ]_vars

\* 639 99 999 9999 was typed with blanks and stored as +639999999999
C14_Witness ==
    /\ StateOf("u1") = AWAITING_ADDRESS
    /\ last.msg = "accepted"
    /\ conversation_state["u1"].data.phone =
          <<"+", "6", "3", "9", "9", "9", "9", "9", "9", "9", "9", "9", "9">>


(***************************************************************************)
(* Properties of the verification decision, checked under SpecDecision.     *)
(***************************************************************************)
\* the decision the rule gives for a user who placed `prior` orders before
\* the one being checked
Decision(order_total, payment_method, trusted, prior) ==
    IF trusted THEN [required |-> FALSE, reason |-> "trusted_buyer"]
    ELSE IF payment_method = "cod" /\ order_total >= 5000
        THEN [required |-> TRUE, reason |-> "cod_high_value"]
    ELSE IF payment_method = "cod" /\ prior < 3
        THEN [required |-> TRUE, reason |-> "new_user_cod"]
    ELSE [required |-> FALSE, reason |-> "not_required"]

\* C15: when a committed checkout consults the verification decision, the
\* result is: not required for a trusted buyer; else required, cod_high_value,
\* for COD with total >= 5000; else required, new_user_cod, for COD by a user
\* with fewer than 3 earlier orders; else not required; and the order is
\* handed to verification exactly when it is required.  (The commit just
\* made has added the order being checked to users.total_orders, so the
\* earlier orders are one fewer.)
C15_DecisionCascade ==
    [][\A c \in Calls :
         (calls[c].pc = "committed" /\ calls'[c].pc = "idle")
            => LET u == calls[c].user
                   data == calls[c].data
                   expected == Decision(data.total_amount, data.payment_method,
                                        u \in TrustedBuyers,
                                        users[u].total_orders - 1)
               IN  /\ check_verification_required(
                          data.total_amount, data.payment_method, u) = expected
                   /\ orders'[calls[c].order_id].verification_required
                         = expected.required
      ]_vars


(***************************************************************************)
(* Properties of the verification hand-off, checked under SpecAdmin.        *)
(***************************************************************************)
\* C16: an order that requires verification leaves order_status pending for
\* confirmed only in a step in which the admin approves its verification;
\* and when the admin approves the verification of such an order, its
\* verification record becomes approved, its verification_status verified
\* and its order_status confirmed.
C16_ConfirmedOnlyByApproval ==
    [][\A o \in DOMAIN orders :
         orders[o].verification_required
            => /\ (orders[o].order_status = "pending"
                     /\ orders'[o].order_status = "confirmed")
                     => Served("approve_verification", o)
               /\ Served("approve_verification", o)
                     => /\ o \in DOMAIN order_verifications'
                        /\ order_verifications'[o].verification_status = "approved"
                        /\ orders'[o].verification_status = "verified"
                        /\ orders'[o].order_status = "confirmed"
      ]_vars


(***************************************************************************)
(* Further properties of Order Materialization, checked under SpecCheckout. *)
(***************************************************************************)
\* C17: the commit of a checkout of quantity q against a product whose stock
\* is s adds, in one step, exactly one order (pending, payment pending), one
\* order item of quantity q for it and one inventory log row (stock_out, -q,
\* s, s - q), sets stock_quantity to s - q, raises sales_count by q, and
\* raises the user's total_orders by 1 and total_spent by the order total.
C17_CommitWrites ==
    [][\A c \in Calls :
         (calls[c].pc = "locked" /\ calls'[c].pc = "committed")
            => LET q == calls[c].data.quantity
                   p == calls[c].data.product_id
                   u == calls[c].user
                   s == products[p].stock_quantity
                   id == calls'[c].order_id
                   log == inventory_logs'[Len(inventory_logs')]
               IN  /\ id \notin DOMAIN orders
                   /\ DOMAIN orders' = DOMAIN orders \cup {id}
                   /\ \A o \in DOMAIN orders : orders'[o] = orders[o]
                   /\ orders'[id].order_status = "pending"
                   /\ orders'[id].payment_status = "pending"
                   /\ orders'[id].user_id = u
                   /\ orders'[id].total_amount = calls[c].data.total_amount
                   /\ \E i \in order_items' :
                         /\ order_items' = order_items \cup {i}
                         /\ i \notin order_items
                         /\ i.order_id = id /\ i.product_id = p
                         /\ i.quantity = q
                   /\ products'[p].stock_quantity = s - q
                   /\ products'[p].sales_count = products[p].sales_count + q
                   /\ Len(inventory_logs') = Len(inventory_logs) + 1
                   /\ SubSeq(inventory_logs', 1, Len(inventory_logs))
                         = inventory_logs
                   /\ log.transaction_type = "stock_out"
                   /\ log.quantity_change = 0 - q
                   /\ log.previous_stock = s
                   /\ log.new_stock = s - q
                   /\ log.product_id = p
                   /\ users'[u].total_orders = users[u].total_orders + 1
                   /\ users'[u].total_spent =
                         users[u].total_spent + calls[c].data.total_amount
      ]_vars

\* a checkout of 2 units against a stock of 2 has just committed
C17_Witness ==
    \E c \in Calls :
        /\ calls[c].pc = "committed"
        /\ calls[c].data.quantity = 2
        /\ products["p1"].stock_quantity = 0
        /\ Len(inventory_logs) = 1


\* C18: whatever fails after the commit (the confirmation to the buyer, the
\* new-order notification, the low-stock alert, the chat log), the step that
\* ends the checkout keeps the committed order, its order item, the stock
\* decrement and the inventory log row in the store.
C18_LateFailureKeepsOrder ==
    [][\A c \in Calls :
         (calls[c].pc = "committed" /\ calls'[c].pc = "idle")
            => LET id == calls[c].order_id
               IN  /\ id \in DOMAIN orders'
                   /\ orders'[id].order_status = "pending"
                   /\ orders'[id].user_id = calls[c].user
                   /\ \E i \in order_items' : i.order_id = id
                   /\ \E k \in DOMAIN inventory_logs' :
                         inventory_logs'[k].reference_id = id
                   /\ UNCHANGED <<order_items, inventory_logs, products>>
      ]_vars

\* the new-order notification failed: the checkout returned success and the
\* buyer's order is in the store
C18_Witness ==
    /\ last.op = "confirm_and_create_order"
    /\ last.msg = "order_confirmed"
    /\ "new_order" \notin last.notified
    /\ \E o \in DOMAIN orders :
          /\ orders[o].user_id = last.arg
          /\ \E i \in order_items : i.order_id = o
    /\ products["p1"].stock_quantity < initial_stock["p1"]


UploadHandlers ==
    {"handle_id_upload", "handle_selfie_upload", "handle_payment_proof"}

\* C20: an upload (ID photo, selfie or payment proof) for an order that
\* already has a verification record leaves that record with no
\* rejection_reason and no reviewer columns and with the status pending or
\* under_review.
C20_UploadClearsReview ==
    [][\A u \in Buyers :
         (last'.op \in UploadHandlers /\ last'.arg = u /\ HasSession(u))
            => LET o == conversation_state[u].data.order_id
               IN  o \in DOMAIN order_verifications
                     => /\ order_verifications'[o].rejection_reason = <<>>
                        /\ ~order_verifications'[o].reviewed
                        /\ order_verifications'[o].verification_status
                              \in {"pending", "under_review"}
      ]_vars


\* C21: an image received in AWAITING_ID_UPLOAD is stored in the order's
\* record, which is pending, leaves the order row as it was and moves the
\* session to AWAITING_SELFIE_UPLOAD for the same order; an image received in
\* AWAITING_SELFIE_UPLOAD sets the record and the order's verification_status
\* to under_review, notifies the admin and clears the session; and an order's
\* verification_status becomes under_review, other than by a payment proof,
\* only in a selfie step that leaves a record holding both the ID and the
\* selfie.
C21_IdThenSelfie ==
    [][\A u \in Buyers :
         LET o == conversation_state[u].data.order_id
         IN  /\ (handle_attachment(u, TRUE) /\ StateOf(u) = AWAITING_ID_UPLOAD)
                   => /\ o \in DOMAIN order_verifications'
                      /\ order_verifications'[o].id_image
                      /\ ~order_verifications'[o].selfie_image
                      /\ order_verifications'[o].verification_status = "pending"
                      /\ orders' = orders
                      /\ StateOf(u)' = AWAITING_SELFIE_UPLOAD
                      /\ conversation_state'[u].data.order_id = o
             /\ (handle_attachment(u, TRUE) /\ StateOf(u) = AWAITING_SELFIE_UPLOAD)
                   => /\ o \in DOMAIN order_verifications'
                      /\ order_verifications'[o].id_image
                      /\ order_verifications'[o].selfie_image
                      /\ order_verifications'[o].verification_status
                            = "under_review"
                      /\ o \in DOMAIN orders'
                      /\ orders'[o].verification_status = "under_review"
                      /\ "verification_pending" \in last'.notified
                      /\ ~HasSession(u)'
             /\ \A x \in DOMAIN orders :
                   (/\ orders[x].verification_status # "under_review"
                    /\ orders'[x].verification_status = "under_review"
                    /\ last'.op # "handle_payment_proof")
                      => /\ last'.op = "handle_selfie_upload"
                         /\ StateOf(u) = AWAITING_SELFIE_UPLOAD
                         /\ x = o
                         /\ order_verifications'[x].id_image
                         /\ order_verifications'[x].selfie_image
      ]_vars

\* the selfie has arrived after the ID: record and order are under review,
\* the session is gone
C21_Witness ==
    /\ last.op = "handle_selfie_upload"
    /\ ~HasSession("u1")
    /\ \E o \in DOMAIN order_verifications :
          /\ order_verifications[o].id_image
          /\ order_verifications[o].selfie_image
          /\ order_verifications[o].verification_status = "under_review"
          /\ orders[o].verification_status = "under_review"


\* C22: an image received in AWAITING_PAYMENT_PROOF leaves the order with a
\* verification record of type upfront_payment and status under_review that
\* carries the session's payment method and amount, the amount being 10% of
\* the order total; the admin is notified and the session is cleared.
C22_PaymentProofRecorded ==
    [][\A u \in Buyers :
         (handle_attachment(u, TRUE) /\ StateOf(u) = AWAITING_PAYMENT_PROOF)
            => LET data == conversation_state[u].data
                   o == data.order_id
               IN  /\ o \in DOMAIN order_verifications'
                   /\ order_verifications'[o].verification_type = "upfront_payment"
                   /\ order_verifications'[o].verification_status = "under_review"
                   /\ order_verifications'[o].payment_method = data.payment_method
                   /\ order_verifications'[o].upfront_amount = data.amount
                   /\ 10 * data.amount = orders[o].total_amount
                   /\ last'.notified # {}
                   /\ ~HasSession(u)'
      ]_vars


\* the moves of a record's status: submission, the admin's decision on a
\* submitted record, and resubmission after a rejection or while waiting
RecordMoves ==
    {<<"pending", "under_review">>, <<"under_review", "approved">>,
     <<"under_review", "rejected">>, <<"rejected", "pending">>,
     <<"rejected", "under_review">>, <<"under_review", "pending">>}

\* C23: the status of a verification record changes only along pending ->
\* under_review -> approved | rejected, and back to pending or under_review
\* on resubmission; it becomes approved or rejected only from under_review,
\* and an approved record keeps its status whatever is uploaded later.
C23_RecordStatusMoves ==
    [][\A o \in DOMAIN order_verifications :
         LET was == order_verifications[o].verification_status
             is == order_verifications'[o].verification_status
         IN  /\ o \in DOMAIN order_verifications'
             /\ was # is => <<was, is>> \in RecordMoves
             /\ (was = "approved" /\ last'.op \in UploadHandlers)
                   => is = "approved"
      ]_vars

(***************************************************************************)
(* C24.  get_conversation_state(user) returns the stored session when one   *)
(* exists and the current time is not past its expires_at; it returns       *)
(* nothing when the user has no session or the session has expired, and an  *)
(* expired session found on read is removed from the store, the other       *)
(* sessions staying as they were.                                           *)
(***************************************************************************)
C24_ReadHonoursDeadline ==
    [][ \A u \in Users :
          get_conversation_state(u) =>
            LET present == u \in DOMAIN conversation_state
                live == present /\ conversation_state[u].expires_at >= now
            IN  /\ live => /\ last'.value = {conversation_state[u]}
                           /\ conversation_state' = conversation_state
                /\ ~live => /\ last'.value = {}
                            /\ u \notin DOMAIN conversation_state'
                            /\ \A v \in DOMAIN conversation_state \ {u} :
                                  /\ v \in DOMAIN conversation_state'
                                  /\ conversation_state'[v] = conversation_state[v]
      ]_vars

\* a session was read, and returned, at the very minute of its deadline
C24_Witness ==
    /\ last.op = "get_conversation_state"
    /\ \E session \in last.value : session.expires_at = now

(***************************************************************************)
(* C25.  cleanup_expired_states removes every session whose expires_at is   *)
(* before the current time, leaves every unexpired session exactly as it    *)
(* was, creates none, and returns the number of sessions it removed.        *)
(***************************************************************************)
C25_CleanupSweepsExpired ==
    [][ cleanup_expired_states =>
          LET overdue == {u \in DOMAIN conversation_state :
                            conversation_state[u].expires_at < now}
          IN  /\ DOMAIN conversation_state' = DOMAIN conversation_state \ overdue
              /\ \A u \in DOMAIN conversation_state' :
                    conversation_state'[u] = conversation_state[u]
              /\ last'.count = Cardinality(overdue)
      ]_vars

\* the sweep has just removed one session and kept one that is still live
C25_Witness ==
    /\ last.op = "cleanup_expired_states"
    /\ last.count = 1
    /\ \E u \in DOMAIN conversation_state :
          conversation_state[u].expires_at >= now

(***************************************************************************)
(* C26.  update_conversation_data(user, key, value) on an existing session  *)
(* sets only data[key] and updated_at: every other collected field, the     *)
(* step and expires_at stay as they were, and so do the other users'        *)
(* sessions; for a user without a session it changes nothing and creates    *)
(* no session.                                                              *)
(***************************************************************************)
C26_UpdateTouchesOneKey ==
    [][ \A u \in Users, k \in StoreKeys, v \in StoreValues :
          update_conversation_data(u, k, v) =>
            IF u \in DOMAIN conversation_state
              THEN LET old == conversation_state[u]
                       new == conversation_state'[u]
                   IN  /\ DOMAIN conversation_state' = DOMAIN conversation_state
                       /\ new.state = old.state
                       /\ new.expires_at = old.expires_at
                       /\ new.updated_at = now
                       /\ DOMAIN new.data = DOMAIN old.data \cup {k}
                       /\ new.data[k] = v
                       /\ \A f \in DOMAIN old.data \ {k} :
                             new.data[f] = old.data[f]
                       /\ \A w \in DOMAIN conversation_state \ {u} :
                             conversation_state'[w] = conversation_state[w]
              ELSE conversation_state' = conversation_state
      ]_vars

\* a session holding another field was updated some time after it was set
C26_Witness ==
    /\ last.op = "update_conversation_data"
    /\ last.arg \in DOMAIN conversation_state
    /\ LET session == conversation_state[last.arg]
       IN  /\ StoreKeys \cup {"product_id"} \subseteq DOMAIN session.data
           /\ session.updated_at = now
           /\ session.expires_at < now + TTL_MINUTES

(***************************************************************************)
(* C27.  The subtotal, shipping fee and total stored on the order and its   *)
(* item are computed from the unit price captured when the flow started     *)
(* (subtotal = that price * quantity, total = subtotal + 50 shipping) and   *)
(* equal what the order summary displayed, even if the product's price or   *)
(* stock changed between the flow's start and the commit; only the stock    *)
(* level is read again at the commit.  Under SpecPrice every flow started   *)
(* while the product cost ProductPrice.                                     *)
(***************************************************************************)
C27_TotalsFromSnapshot ==
    [][ /\ \A u \in DOMAIN conversation_state :
              \* what the summary shows and the CONFIRM ORDER button confirms
              conversation_state[u].state = AWAITING_CONFIRMATION =>
                LET data == conversation_state[u].data
                IN  /\ data.subtotal = ProductPrice * data.quantity
                    /\ data.shipping_fee = 50
                    /\ data.total_amount = ProductPrice * data.quantity + 50
        /\ \A c \in Calls :
              Commit(c) =>
                LET id == next_order_id
                    p == calls[c].data.product_id
                    quantity == calls[c].data.quantity
                    shown == conversation_state[calls[c].user].data
                IN  /\ orders'[id].subtotal = ProductPrice * quantity
                    /\ orders'[id].shipping_fee = 50
                    /\ orders'[id].total_amount = ProductPrice * quantity + 50
                    /\ calls[c].user \in DOMAIN conversation_state
                    /\ orders'[id].subtotal = shown.subtotal
                    /\ orders'[id].total_amount = shown.total_amount
                    /\ \E item \in order_items' \ order_items :
                          /\ item.order_id = id
                          /\ item.quantity = quantity
                          /\ item.unit_price = ProductPrice
                          /\ item.total_price = ProductPrice * quantity
                    /\ products'[p].stock_quantity =
                          products[p].stock_quantity - quantity
                    /\ products'[p].base_price = products[p].base_price
      ]_vars

\* u1's order has just been committed after the price was raised and after
\* u2's order took stock
C27_Witness ==
    /\ last.op = "confirm.commit"
    /\ last.arg = "u1"
    /\ products["p1"].base_price = RaisedPrice
    /\ Len(inventory_logs) = 2
    /\ inventory_logs[2].previous_stock < InitStock
    /\ \E o \in DOMAIN orders :
          /\ orders[o].user_id = "u1"
          /\ orders[o].subtotal = ProductPrice

(***************************************************************************)
(* C28.  validate_name accepts exactly the inputs whose trimmed,            *)
(* whitespace-collapsed form has a length between 2 and 255 inclusive, and  *)
(* returns that cleaned form; every other input is rejected.  At the name   *)
(* step an accepted name is stored as recipient_name and the session moves  *)
(* to AWAITING_PHONE; a rejected one leaves every session as it was.        *)
(***************************************************************************)
\* the words of the typed name with one blank between them
CleanedForm(c) ==
    Repeat("a", c.first)
        \o (IF c.first > 0 /\ c.second > 0 /\ c.gap > 0 THEN <<" ">> ELSE <<>>)
        \o Repeat("b", c.second)

C28_NameAccepted ==
    [][\A c \in NameCases :
         (StateOf("u1") = AWAITING_NAME /\ handle_user_message("u1", c.text))
            => LET cleaned == CleanedForm(c)
               IN  IF 2 <= Len(cleaned) /\ Len(cleaned) <= 255
                     THEN /\ StateOf("u1")' = AWAITING_PHONE
                          /\ conversation_state'["u1"].data.recipient_name
                                = cleaned
                     ELSE conversation_state' = conversation_state
      ]_vars

(***************************************************************************)
(* C29.  The webhook GET handler echoes the challenge with status 200 if    *)
(* and only if the supplied verify token equals the configured secret;      *)
(* otherwise it answers 403 without the challenge.                          *)
(***************************************************************************)
C29_ChallengeIffToken ==
    [][\A mode \in HubModes, token \in HubTokens, challenge \in HubChallenges :
         WebhookGet(mode, token, challenge) =>
            IF token = <<"my_secret_token">>
              THEN /\ last'.response.status = 200
                   /\ last'.response.body = challenge
              ELSE /\ last'.response.status = 403
                   /\ last'.response.body # challenge
      ]_vars

(***************************************************************************)
(* C30.  One order conversation creates at most one order: after a session  *)
(* has led to a committed order, further CONFIRM_ORDER postbacks from the   *)
(* same user, after the first or concurrent with it, create no additional   *)
(* order, item, stock decrement or inventory log unless the user starts a   *)
(* new flow with ORDER_<product_id>.  Under SpecRepeat no new flow is       *)
(* started, so each buyer has at most one order, with one item and one log  *)
(* row, and the stock has gone down by at most that item's quantity.        *)
(***************************************************************************)
OrdersOf(u) == {o \in DOMAIN orders : orders[o].user_id = u}

C30_OneOrderPerConversation ==
    /\ \A u \in Users :
          /\ Cardinality(OrdersOf(u)) <= 1
          /\ Cardinality({i \in order_items : i.order_id \in OrdersOf(u)}) <= 1
    /\ Len(inventory_logs) <= 1
    /\ \A p \in ProductIds :
          \/ products[p].stock_quantity = initial_stock[p]
          \/ \E i \in order_items :
                /\ i.product_id = p
                /\ products[p].stock_quantity = initial_stock[p] - i.quantity

(***************************************************************************)
(* C31.  In every reachable state, under any interleaving of checkouts and  *)
(* admin cancellations, each product's stock_quantity is >= 0.              *)
(***************************************************************************)
C31_StockNeverNegative ==
    \A p \in ProductIds : products[p].stock_quantity >= 0

\* the stock is used up again after an order was cancelled and its units
\* were returned
C31_Witness ==
    /\ products["p1"].stock_quantity = 0
    /\ \E o \in DOMAIN orders : orders[o].order_status = "cancelled"
    /\ \E k \in 1..Len(inventory_logs) :
          /\ inventory_logs[k].transaction_type = "return"
          /\ \E j \in k + 1..Len(inventory_logs) :
                inventory_logs[j].transaction_type = "stock_out"

Thread(pc, user, step, arg) ==
    [pc |-> pc, user |-> user, step |-> step, arg |-> arg,
     subtotal |-> 0, orphaned |-> FALSE, state |-> <<>>]

\* the dict the local variable `state` of thread c refers to
Held(c) ==
    IF calls[c].orphaned THEN calls[c].state
    ELSE conversation_state[calls[c].user]

\* a variant in which `state` follows the user's key to the new dict
KeptCurrent(cl, user_id) == cl

\* what a handler still reads of the dict it holds after its first step:
\* state['data']['product_price'] and data['subtotal']
ReadKeys == {"product_price", "subtotal"}
ReadPart(session) ==
    [data |-> [k \in DOMAIN session.data \cap ReadKeys |-> session.data[k]]]

\* conversation_state[user_id] is assigned a new dict or deleted: the
\* handlers that read the old dict keep it
Orphaned(cl, user_id) ==
    [c \in Calls |->
        IF cl[c].pc # "idle" /\ cl[c].user = user_id /\ ~cl[c].orphaned
            THEN [cl[c] EXCEPT !.orphaned = TRUE,
                               !.state = ReadPart(conversation_state[user_id])]
        ELSE cl[c]]

\* conversation_state[user_id] = {...}: a new dict under the same key
Replaced(cl, user_id) == Orphaned(cl, user_id)

\* the validation a step handler applies to the text
Validated(session, text) ==
    CASE session.state = AWAITING_QUANTITY ->
             LET v == validate_quantity(text)
             IN  IF v.ok /\ v.value > session.data.max_stock
                   THEN [ok |-> FALSE, value |-> 0] ELSE v
      [] session.state = AWAITING_NAME -> validate_name(text)
      [] session.state = AWAITING_PHONE -> validate_phone_number(text)
      [] session.state = AWAITING_ADDRESS -> validate_address(text)
      [] OTHER -> [ok |-> FALSE, value |-> <<>>]

\* the first key a step handler writes, and the key after each key
FirstKey(step) ==
    CASE step = AWAITING_QUANTITY -> "quantity"
      [] step = AWAITING_NAME -> "recipient_name"
      [] step = AWAITING_PHONE -> "phone"
      [] step = AWAITING_ADDRESS -> "address"
      [] step = AWAITING_PAYMENT_METHOD -> "payment_method"

KeyAfter(key) ==
    CASE key = "quantity" -> "subtotal"
      [] key = "payment_method" -> "shipping_fee"
      [] key = "shipping_fee" -> "total_amount"
      [] OTHER -> "advance"

\* the step a handler moves the dict it holds to
StepAfter(step) ==
    CASE step = AWAITING_QUANTITY -> AWAITING_NAME
      [] step = AWAITING_NAME -> AWAITING_PHONE
      [] step = AWAITING_PHONE -> AWAITING_ADDRESS
      [] step = AWAITING_ADDRESS -> AWAITING_PAYMENT_METHOD
      [] step = AWAITING_PAYMENT_METHOD -> AWAITING_CONFIRMATION

RaceFrame == UNCHANGED <<store, row_lock, admin_ops, now, processed_events>>

\* handle_user_message up to the validation of process_*_input
ReadText(c, sender_id, text) ==
    LET accepted == /\ HasSession(sender_id)
                    /\ Validated(conversation_state[sender_id], text).ok
    IN  /\ calls[c].pc = "idle"
        /\ calls' = IF accepted
                      THEN [calls EXCEPT ![c] =
                              Thread(FirstKey(StateOf(sender_id)), sender_id,
                                     StateOf(sender_id), text)]
                    ELSE calls
        /\ last' = Answer("handle_user_message", sender_id, TRUE,
                          IF accepted THEN "validated" ELSE "rejected", {})
        /\ UNCHANGED conversation_state
        /\ RaceFrame

\* process_payment_method up to the check of the step
ReadPayment(c, sender_id, payment_method) ==
    LET accepted == StateOf(sender_id) = AWAITING_PAYMENT_METHOD
    IN  /\ calls[c].pc = "idle"
        /\ calls' = IF accepted
                      THEN [calls EXCEPT ![c] =
                              Thread(FirstKey(AWAITING_PAYMENT_METHOD),
                                     sender_id, AWAITING_PAYMENT_METHOD,
                                     payment_method)]
                    ELSE calls
        /\ last' = Answer("process_payment_method", sender_id, accepted,
                          "none", {})
        /\ UNCHANGED conversation_state
        /\ RaceFrame

\* the value a handler passes to update_conversation_data for a key
ValueFor(c, key) ==
    CASE key = "quantity" -> validate_quantity(calls[c].arg).value
      [] key = "subtotal" ->
             Held(c).data.product_price * validate_quantity(calls[c].arg).value
      [] key = "recipient_name" -> validate_name(calls[c].arg).value
      [] key = "phone" -> validate_phone_number(calls[c].arg).value
      [] key = "address" -> validate_address(calls[c].arg).value
      [] key = "payment_method" -> calls[c].arg
      [] key = "shipping_fee" -> SHIPPING_FEE
      [] key = "total_amount" -> calls[c].subtotal + SHIPPING_FEE

\* one update_conversation_data(sender_id, key, value) of a step handler;
\* after the first one process_payment_method reads data['subtotal'] from
\* the dict it holds
WriteKey(c) ==
    LET key == calls[c].pc
        sender_id == calls[c].user
    IN  /\ key \notin {"idle", "advance"}
        /\ conversation_state' =
              UpdateData(conversation_state, sender_id, key, ValueFor(c, key))
        /\ calls' = IF key # "payment_method"
                      THEN [calls EXCEPT ![c].pc = KeyAfter(key)]
                    ELSE IF "subtotal" \in DOMAIN Held(c).data
                      THEN [calls EXCEPT ![c].pc = KeyAfter(key),
                                         ![c].subtotal = Held(c).data.subtotal]
                    ELSE [calls EXCEPT ![c] = IdleCall]      \* KeyError
        /\ last' = Answer("update_conversation_data", sender_id, TRUE,
                          "none", {})
        /\ RaceFrame

\* state['state'] = <next step>, and the prompt for the next step
AdvanceHeld(c) ==
    LET sender_id == calls[c].user
    IN  /\ calls[c].pc = "advance"
        /\ conversation_state' =
              IF calls[c].orphaned THEN conversation_state
              ELSE Advance(conversation_state, sender_id,
                           StepAfter(calls[c].step))
        /\ calls' = [calls EXCEPT ![c] = IdleCall]
        /\ last' = Answer("advance", sender_id, TRUE, "accepted", {})
        /\ RaceFrame

\* ORDER_<product_id> while handlers may be running
Restart(sender_id, product_id) ==
    LET product == products[product_id]
    IN  /\ conversation_state' =
              RequestStep(conversation_state, sender_id, product_id, product)
        /\ calls' = IF product.stock_quantity <= 0 THEN calls
                    ELSE Replaced(calls, sender_id)
        /\ last' = Answer("handle_order_request", sender_id, TRUE,
                          IF product.stock_quantity <= 0
                            THEN "out_of_stock" ELSE "ask_quantity", {})
        /\ RaceFrame

\* CANCEL_ORDER while handlers may be running
CancelRunning(sender_id) ==
    /\ HasSession(sender_id)
    /\ conversation_state' = ClearState(conversation_state, sender_id)
    /\ calls' = Orphaned(calls, sender_id)
    /\ last' = Answer("cancel_order", sender_id, TRUE, "order_cancelled", {})
    /\ RaceFrame

RaceTexts == {<<"1">>, <<"2">>, ContactText}

\* the buyer's session was started when the product had InitStock units;
\* other buyers may have bought since
InitRace ==
    \E stock \in 1..InitStock :
        /\ StoreWith(stock, 1, [u \in Users |-> 0])
        /\ conversation_state =
              RequestStep(<<>>, "u1", "p1",
                          [stock_quantity |-> InitStock, sales_count |-> 0,
                           base_price |-> ProductPrice])

TextArrives == \E c \in Calls, u \in Buyers, t \in RaceTexts : ReadText(c, u, t)
PaymentArrives ==
    \E c \in Calls, u \in Buyers, m \in CheckoutMethods : ReadPayment(c, u, m)
Write == \E c \in Calls : WriteKey(c)
AdvanceStep == \E c \in Calls : AdvanceHeld(c)
RestartArrives == \E u \in Buyers, p \in ProductIds : Restart(u, p)
CancelArrives == \E u \in Buyers : CancelRunning(u)

NextRace ==
    \/ TextArrives
    \/ PaymentArrives
    \/ Write
    \/ AdvanceStep
    \/ RestartArrives
    \/ CancelArrives

SpecRace == InitRace /\ [][NextRace]_vars

(***************************************************************************)
(* Properties of racing events of one buyer, checked under SpecRace.        *)
(***************************************************************************)
ConfirmationFields ==
    {"product_id", "quantity", "subtotal", "recipient_name", "phone",
     "address", "payment_method", "shipping_fee", "total_amount"}

\* C33: whenever a buyer's session is at AWAITING_CONFIRMATION, its data
\* holds product_id, quantity, subtotal, recipient_name, phone, address,
\* payment_method, shipping_fee and total_amount, however the buyer's
\* texts, payment choices, restarts and cancellations interleave.
C33_ConfirmationHasAllFields ==
    \A u \in DOMAIN conversation_state :
        conversation_state[u].state = AWAITING_CONFIRMATION
            => ConfirmationFields \subseteq DOMAIN conversation_state[u].data

\* a session started again reached the confirmation step while a handler
\* that had read the replaced session was still running
C33_Witness ==
    /\ HasSession("u1")
    /\ conversation_state["u1"].state = AWAITING_CONFIRMATION
    /\ \E c \in Calls : calls[c].pc # "idle" /\ calls[c].orphaned

\* C34: whenever a buyer's session is at a step after AWAITING_QUANTITY, its
\* quantity q satisfies 1 <= q <= 99 and q <= the max_stock of the same
\* session, and its subtotal is that session's product_price * q, however
\* the buyer's events interleave.
C34_QuantityWithinSnapshot ==
    \A u \in DOMAIN conversation_state :
        LET data == conversation_state[u].data
        IN  conversation_state[u].state \in
                {AWAITING_NAME, AWAITING_PHONE, AWAITING_ADDRESS,
                 AWAITING_PAYMENT_METHOD, AWAITING_CONFIRMATION}
              => /\ {"quantity", "subtotal"} \subseteq DOMAIN data
                 /\ 1 <= data.quantity
                 /\ data.quantity <= 99
                 /\ data.quantity <= data.max_stock
                 /\ data.subtotal = data.product_price * data.quantity

(***************************************************************************)
(* SpecExpiry: the order flow and the checkout of one buyer while the clock *)
(* advances.  Every step handler begins with get_conversation_state, which  *)
(* deletes a session whose deadline has passed and returns None.            *)
(***************************************************************************)
Lapsed(user_id) ==
    HasSession(user_id) /\ now > conversation_state[user_id].expires_at

\* get_conversation_state found the deadline passed: the session is deleted
\* and the handler goes on as it does without a session
LazyExpiry(sender_id, op, ok, msg) ==
    /\ Lapsed(sender_id)
    /\ conversation_state' = ClearState(conversation_state, sender_id)
    /\ last' = Answer(op, sender_id, ok, msg, {})
    /\ UNCHANGED <<store, row_lock, calls, admin_ops, now, processed_events>>

TimedMessage ==
    \E u \in Buyers, t \in Texts :
        \/ LazyExpiry(u, "handle_user_message", TRUE, "reply")
        \/ ~Lapsed(u) /\ handle_user_message(u, t)

TimedPayment ==
    \E u \in Buyers, m \in CheckoutMethods :
        \/ LazyExpiry(u, "process_payment_method", FALSE, "none")
        \/ ~Lapsed(u) /\ process_payment_method(u, m)

TimedCancel ==
    \E u \in Buyers :
        \/ LazyExpiry(u, "cancel_order", TRUE, "no_active_order")
        \/ ~Lapsed(u) /\ cancel_order(u)

TimedConfirm ==
    \E u \in Buyers :
        \/ calls[CallOf(u)].pc = "idle"
           /\ LazyExpiry(u, "confirm_and_create_order", FALSE, "no_active_order")
        \/ ~Lapsed(u) /\ ConfirmStart(CallOf(u), u)

NextExpiry ==
    \/ OrderRequest(Buyers)
    \/ TimedMessage
    \/ TimedPayment
    \/ TimedCancel
    \/ TimedConfirm
    \/ Lock
    \/ Insufficient
    \/ CommitOrder
    \/ Failure
    \/ AfterCommit
    \/ LateFailure
    \/ Tick

SpecExpiry == Init /\ [][NextExpiry]_vars

(***************************************************************************)
(* Properties of the session deadline, checked under SpecExpiry.            *)
(***************************************************************************)
StepHandlers ==
    {"handle_user_message", "process_payment_method",
     "confirm_and_create_order", "cancel_order"}

\* C35: a session's expires_at changes only in a step that sets a fresh
\* session at AWAITING_QUANTITY with the deadline 30 minutes ahead; advancing
\* the step and merging fields leave it as it is.  A step handler that runs
\* for a buyer whose session is past its deadline leaves the buyer without a
\* session, begins no checkout and writes no order.
C35_DeadlineSetOnlyAtStart ==
    [][\A u \in Users :
         /\ (/\ HasSession(u)
             /\ u \in DOMAIN conversation_state'
             /\ conversation_state'[u].expires_at
                   # conversation_state[u].expires_at)
               => /\ conversation_state'[u].expires_at = now + 30
                  /\ conversation_state'[u].state = AWAITING_QUANTITY
                  /\ DOMAIN conversation_state'[u].data
                        = {"product_id", "product_price", "max_stock"}
         /\ (/\ HasSession(u)
             /\ now > conversation_state[u].expires_at
             /\ last'.op \in StepHandlers
             /\ last'.arg = u
             /\ now' = now
             /\ calls' = calls)
               => /\ u \notin DOMAIN conversation_state'
                  /\ orders' = orders
      ]_vars

\* a flow started at minute 0 has gone through all its steps, the last one
\* at minute 15 or later, and is past its deadline, which is still minute 30
C35_Witness ==
    /\ HasSession("u1")
    /\ conversation_state["u1"].state = AWAITING_CONFIRMATION
    /\ conversation_state["u1"].updated_at >= 15
    /\ conversation_state["u1"].expires_at = 30
    /\ now > 30

(***************************************************************************)
(* SpecStranger: the buyer u1 has completed the order flow and checks out;  *)
(* the other user, u2, who has no order, sends the verification postbacks   *)
(* with the id of u1's order and images.                                    *)
(***************************************************************************)
Strangers == {"u2"}

InitStranger ==
    \E stock \in 1..InitStock, t \in QuantityTexts, m \in CheckoutMethods :
        /\ validate_quantity(t).value <= stock
        /\ StoreAt(stock, 1)
        /\ conversation_state = CompletedFlow(<<>>, "u1", "p1", stock, t, m)

NextStranger ==
    \/ ConfirmOrder(Buyers)
    \/ Lock
    \/ CommitOrder
    \/ Failure
    \/ AfterCommit
    \/ LateFailure
    \/ VerifyId(Strangers)
    \/ VerifyUpfront(Strangers)
    \/ PayUpfront(Strangers)
    \/ Attachment(Strangers)

SpecStranger == InitStranger /\ [][NextStranger]_vars

(***************************************************************************)
(* Properties of the verification sub-flow's senders, checked under         *)
(* SpecStranger.                                                            *)
(***************************************************************************)
VerificationHandlers ==
    {"start_id_verification", "start_upfront_payment",
     "send_payment_instructions", "handle_attachment", "handle_id_upload",
     "handle_selfie_upload", "handle_payment_proof"}

\* C36: a verification postback or image sent by a user who does not own an
\* order neither creates nor changes that order's verification record and
\* leaves the order's verification_status as it is.
C36_OnlyOwnerUploads ==
    [][\A o \in DOMAIN orders :
         (/\ last'.op \in VerificationHandlers
          /\ last'.arg # orders[o].user_id)
            => /\ orders'[o].verification_status = orders[o].verification_status
               /\ (o \in DOMAIN order_verifications')
                     <=> (o \in DOMAIN order_verifications)
               /\ o \in DOMAIN order_verifications
                     => order_verifications'[o] = order_verifications[o]
      ]_vars

(***************************************************************************)
(* Agreement of an order with its verification record, checked under        *)
(* SpecVerify.                                                              *)
(***************************************************************************)
RecordStatus(o) ==
    IF o \in DOMAIN order_verifications
        THEN order_verifications[o].verification_status ELSE "none"

\* C37: in every reachable state an order's verification_status is verified
\* exactly when its verification record is approved, rejected exactly when
\* the record is rejected, and under_review exactly when the record is
\* under_review.
C37_OrderAgreesWithRecord ==
    \A o \in DOMAIN orders :
        /\ orders[o].verification_status = "verified"
              <=> RecordStatus(o) = "approved"
        /\ orders[o].verification_status = "rejected"
              <=> RecordStatus(o) = "rejected"
        /\ orders[o].verification_status = "under_review"
              <=> RecordStatus(o) = "under_review"

(***************************************************************************)
(* SpecMismatch: the buyer u1 is somewhere in the order flow and sends      *)
(* texts, payment choices, CONFIRM_ORDER, the verification postbacks and    *)
(* attachments in any order, so that events arrive at steps that do not     *)
(* expect them.                                                             *)
(***************************************************************************)
NextMismatch ==
    \/ UserMessage(Buyers)
    \/ PaymentMethod(Buyers)
    \/ ConfirmOrder(Buyers)
    \/ Lock
    \/ CommitOrder
    \/ Failure
    \/ AfterCommit
    \/ LateFailure
    \/ VerifyId(Buyers)
    \/ PayUpfront(Buyers)
    \/ Attachment(Buyers)

SpecMismatch == InitVerify /\ [][NextMismatch]_vars

(***************************************************************************)
(* Properties of events that do not match the step, checked under           *)
(* SpecMismatch.                                                            *)
(***************************************************************************)
UploadSteps ==
    {AWAITING_ID_UPLOAD, AWAITING_SELFIE_UPLOAD, AWAITING_PAYMENT_PROOF}

\* the event served in this step does not match the step u's session is at
Mismatched(u) ==
    LET st == StateOf(u)
    IN  /\ last'.arg = u
        /\ calls' = calls
        /\ \/ /\ last'.op = "handle_user_message"
              /\ st \in {AWAITING_PAYMENT_METHOD, AWAITING_CONFIRMATION}
                        \cup UploadSteps
           \/ /\ last'.op = "process_payment_method"
              /\ st # AWAITING_PAYMENT_METHOD
           \/ /\ last'.op = "confirm_and_create_order"
              /\ st # AWAITING_CONFIRMATION
           \/ /\ last'.op = "handle_attachment"
              /\ st \notin UploadSteps

LookupFaults == {"none", "connect", "query"}

\* what a lookup hands to check_verification_required: it raised, or a value
Looked(raised, value) == [raised |-> raised, value |-> value]

\* is_trusted_buyer with a fault
TrustedLookup(user_id, fault) ==
    CASE fault = "connect" -> Looked(TRUE, FALSE)
      [] fault = "query" -> Looked(FALSE, FALSE)
      [] OTHER -> Looked(FALSE, is_trusted_buyer(user_id))

\* is_new_user with a fault
HistoryLookup(user_id, fault) ==
    CASE fault = "connect" -> Looked(TRUE, TRUE)
      [] fault = "query" -> Looked(FALSE, TRUE)
      [] OTHER -> Looked(FALSE, is_new_user(user_id))

ErrorDecision == [required |-> FALSE, reason |-> "error"]

\* the cascade reaches is_new_user
HistoryConsulted(order_total, payment_method, user_id, trusted_fault) ==
    LET trusted == TrustedLookup(user_id, trusted_fault)
    IN  /\ ~trusted.raised
        /\ ~trusted.value
        /\ payment_method = "cod"
        /\ order_total < COD_VERIFICATION_THRESHOLD

\* check_verification_required with faults in its lookups
CheckWithFaults(order_total, payment_method, user_id, trusted_fault, history_fault) ==
    LET trusted == TrustedLookup(user_id, trusted_fault)
        history == HistoryLookup(user_id, history_fault)
    IN  IF trusted.raised THEN ErrorDecision
        ELSE IF trusted.value
            THEN [required |-> FALSE, reason |-> "trusted_buyer"]
        ELSE IF payment_method = "cod"
                /\ order_total >= COD_VERIFICATION_THRESHOLD
            THEN [required |-> TRUE, reason |-> "cod_high_value"]
        ELSE IF payment_method = "cod" /\ history.raised THEN ErrorDecision
        ELSE IF payment_method = "cod" /\ history.value
            THEN [required |-> TRUE, reason |-> "new_user_cod"]
        ELSE [required |-> FALSE, reason |-> "not_required"]

\* the answer of a checkout whose decision met a failing lookup
LookupAnswer(sender_id, msg, notified, decision, order_id) ==
    [op |-> "confirm_and_create_order", arg |-> sender_id, ok |-> TRUE,
     msg |-> msg, notified |-> notified, decision |-> decision,
     order_id |-> order_id]

\* lines 444-510 when a lookup that the decision consults fails
PostCommitLookup(c, trusted_fault, history_fault) ==
    LET data == calls[c].data
        sender_id == calls[c].user
        check == CheckWithFaults(data.total_amount, data.payment_method,
                                 sender_id, trusted_fault, history_fault)
    IN  /\ calls[c].pc = "committed"
        /\ \/ trusted_fault # "none"
           \/ /\ history_fault # "none"
              /\ HistoryConsulted(data.total_amount, data.payment_method,
                                  sender_id, trusted_fault)
        /\ IF check.required
             THEN /\ orders' = create_verification_record(
                                   orders, calls[c].order_id, data.total_amount)
                  /\ UNCHANGED conversation_state
                  /\ last' = LookupAnswer(sender_id, "verification_options", {},
                                          check, calls[c].order_id)
             ELSE /\ UNCHANGED orders
                  /\ conversation_state' =
                        ClearState(conversation_state, sender_id)
                  /\ last' = LookupAnswer(sender_id, "order_confirmed",
                                          {"new_order"} \cup
                                          IF NewStock(c) <= LOW_STOCK_THRESHOLD
                                              THEN {"low_stock"} ELSE {},
                                          check, calls[c].order_id)
        /\ calls' = [calls EXCEPT ![c] = IdleCall]
        /\ UNCHANGED <<products, users, order_items, inventory_logs,
                       order_verifications, next_order_id, row_lock, admin_ops,
                       initial_stock, now, processed_events>>

LookupFails ==
    \E c \in Calls, trusted_fault \in LookupFaults,
       history_fault \in LookupFaults :
        PostCommitLookup(c, trusted_fault, history_fault)

NextLookup ==
    \/ ConfirmOrder(Users)
    \/ Lock
    \/ Insufficient
    \/ CommitOrder
    \/ Failure
    \/ AfterCommit
    \/ LateFailure
    \/ LookupFails

SpecLookup == InitDecision /\ [][NextLookup]_vars

\* C39: when a lookup consulted by the verification decision has failed, the
\* checkout still returns, the committed order is in the orders table, and
\* the decision returned is 'not required' with the reason 'error'.
C39_LookupFailureGivesError ==
    "decision" \in DOMAIN last
        => /\ last.ok
           /\ last.order_id \in DOMAIN orders
           /\ last.decision = [required |-> FALSE, reason |-> "error"]

(***************************************************************************)
(* SpecDedup: POST /webhook for the messaging events of one sender, served  *)
(* one at a time, after the webhook has handled Handled events.  An event   *)
(* may be delivered again.  In this specification calls[c] is the request   *)
(* thread c: the event it is dispatching.  What the dispatched handlers do  *)
(* to the sessions and the tables is the subject of the other               *)
(* specifications.                                                          *)
(***************************************************************************)
MAX_PROCESSED_EVENTS == 100     \* if len(processed_events) > 100
Handled == 99                   \* events handled before the start

\* f"{sender_id}_{timestamp}"
EventId(sender_id, timestamp) == <<sender_id, timestamp>>

\* the timestamps that arrive: the oldest and the latest handled event
\* again, and two new events
Timestamps == {1, Handled, Handled + 1, Handled + 2}

\* processed_events.pop(): set.pop() removes an arbitrary element
Popped(events) == events

\* processed_events after add(event_id) and the cleanup
AfterAdd(event_id) ==
    LET added == processed_events \cup {event_id}
    IN  IF Cardinality(added) > MAX_PROCESSED_EVENTS
          THEN {added \ {e} : e \in Popped(added)}
        ELSE {added}

Dispatching(sender_id, event_id) ==
    [pc |-> "dispatch", user |-> sender_id, event |-> event_id]

\* lines 66-80: the event id is looked up; a known id is skipped, a new one
\* is added and the cache cleaned up
webhook_post(c, sender_id, timestamp) ==
    LET event_id == EventId(sender_id, timestamp)
    IN  /\ calls[c].pc = "idle"
        /\ IF event_id \in processed_events
             THEN /\ UNCHANGED <<processed_events, calls>>
                  /\ last' = Answer("webhook_post", event_id, TRUE, "skipped", {})
             ELSE /\ processed_events' \in AfterAdd(event_id)
                  /\ calls' = [calls EXCEPT ![c] =
                                  Dispatching(sender_id, event_id)]
                  /\ last' = Answer("webhook_post", event_id, TRUE, "added", {})
        /\ UNCHANGED <<conversation_state, store, row_lock, admin_ops, now>>

\* lines 82-118: get_or_create_user and the handler of the event
Dispatch(c) ==
    /\ calls[c].pc = "dispatch"
    /\ calls' = [calls EXCEPT ![c] = IdleCall]
    /\ last' = Answer("dispatch", calls[c].event, TRUE, "handled",
                      {"get_or_create_user", "handler"})
    /\ UNCHANGED <<conversation_state, store, row_lock, admin_ops, now,
                   processed_events>>

\* the webhook has handled the events 1..Handled of the sender
InitDedup ==
    /\ conversation_state = <<>>
    /\ StoreWithCache(InitStock, 1, [u \in Users |-> 0],
                      {EventId("u1", t) : t \in 1..Handled})

EventArrives == \E t \in Timestamps : webhook_post("c1", "u1", t)
EventDispatched == Dispatch("c1")

NextDedup ==
    \/ EventArrives
    \/ EventDispatched

SpecDedup == InitDedup /\ [][NextDedup]_vars

(***************************************************************************)
(* Properties of the dedup cache, checked under SpecDedup.                  *)
(***************************************************************************)
\* C40: the cache never holds more than 100 event ids once an event has been
\* taken in; an event whose id is in the cache when it arrives is skipped:
\* nothing is dispatched for it; and while an event is being dispatched its
\* id is in the cache.
C40_DedupCache ==
    [][/\ Cardinality(processed_events') <= 100
       /\ (/\ last'.op = "webhook_post"
           /\ last'.arg \in processed_events)
             => /\ last'.msg = "skipped"
                /\ UNCHANGED <<calls, processed_events, conversation_state,
                               store>>
       /\ \A c \in Calls :
             calls'[c].pc = "dispatch"
                => calls'[c].event \in processed_events'
      ]_vars

=============================================================================
